---- MODULE Spec2Model ----
(***************************************************************************)
(* Model of the catalog search service (src/app/catalog.py): the           *)
(* CatalogService object (mode, client, seed catalog), the remote search   *)
(* engine it talks to (one index: existence flag and documents by id),     *)
(* and the operations initialize, search and mode, with the helpers they   *)
(* call.  Text is a sequence of one-character strings; a Python dict is a  *)
(* record whose DOMAIN is the set of keys present; money is in hundredths  *)
(* (unit_price 150 is 1.50); engine scores are in units of 0.0001.         *)
(***************************************************************************)
EXTENDS Integers, Sequences, FiniteSets, TLC

\* ------------------------------------------------------------------ bounds
MaxDocs == 2           \* longest seed catalog drawn in Init
MaxLimit == 2          \* largest intent.limit drawn
MaxHits == 2           \* longest hit list the remote engine answers with
MaxAttempts == 2       \* largest ELASTICSEARCH_CONNECT_ATTEMPTS drawn
MaxStartups == 2       \* process starts (CatalogService constructions) explored
MaxSeedCalls == 3      \* _seed_if_empty calls explored by SpecSeed

\* -------------------------------------------------------------------- text
LowerChar(c) ==
    CASE c = "P" -> "p" [] c = "S" -> "s" [] c = "U" -> "u" [] c = "L" -> "l"
      [] c = "E" -> "e" [] c = "D" -> "d" [] c = "I" -> "i" [] c = "R" -> "r"
      [] OTHER -> c

\* str.lower()
Lower(s) == [i \in 1..Len(s) |-> LowerChar(s[i])]

\* str.split(): the maximal runs of non-blank characters
RECURSIVE SplitFrom(_, _, _)
SplitFrom(s, i, cur) ==
    IF i > Len(s) THEN (IF cur = <<>> THEN <<>> ELSE <<cur>>)
    ELSE IF s[i] = " "
         THEN (IF cur = <<>> THEN <<>> ELSE <<cur>>) \o SplitFrom(s, i + 1, <<>>)
         ELSE SplitFrom(s, i + 1, Append(cur, s[i]))

Split(s) == SplitFrom(s, 1, <<>>)

\* " ".join(parts)
RECURSIVE Join(_)
Join(parts) ==
    IF parts = <<>> THEN <<>>
    ELSE IF Len(parts) = 1 THEN parts[1]
    ELSE parts[1] \o <<" ">> \o Join(Tail(parts))

StripChars == {",", ".", "?", "!"}

RECURSIVE LStrip(_)
LStrip(s) == IF s # <<>> /\ Head(s) \in StripChars THEN LStrip(Tail(s)) ELSE s

RECURSIVE RStrip(_)
RStrip(s) ==
    IF s # <<>> /\ s[Len(s)] \in StripChars THEN RStrip(SubSeq(s, 1, Len(s) - 1)) ELSE s

\* token.strip(",.?!")
Strip(s) == RStrip(LStrip(s))

\* token in haystack (substring test; the empty token is in every text)
Contains(hay, tok) ==
    \E i \in 0..(Len(hay) - Len(tok)) : SubSeq(hay, i + 1, i + Len(tok)) = tok

Range(s) == {s[i] : i \in 1..Len(s)}

\* ------------------------------------------------------------- stop words
W_find == <<"f","i","n","d">>
W_need == <<"n","e","e","d">>
W_with == <<"w","i","t","h">>
W_that == <<"t","h","a","t">>
W_this == <<"t","h","i","s">>
W_for == <<"f","o","r">>
W_the == <<"t","h","e">>
W_and == <<"a","n","d">>
W_top == <<"t","o","p">>
W_best == <<"b","e","s","t">>
W_under == <<"u","n","d","e","r">>
W_cheapest == <<"c","h","e","a","p","e","s","t">>
W_stock == <<"s","t","o","c","k">>
W_instock == <<"i","n","-","s","t","o","c","k">>
W_in == <<"i","n">>

FallbackStopWords ==
    {W_find, W_need, W_with, W_that, W_this, W_for, W_the, W_and, W_top, W_best,
     W_under, W_cheapest, W_stock, W_instock}

CoverageStopWords ==
    {W_find, W_need, W_with, W_that, W_this, W_for, W_the, W_and, W_top, W_best,
     W_under, W_in, W_stock}

\* the set comprehension both tokenizers share, over their own stop words
QueryTokens(query, stop_words) ==
    {Strip(token) : token \in
        {t \in Range(Split(Lower(query))) : Len(t) > 2 /\ Strip(t) \notin stop_words}}

\* -------------------------------------------------------------- optionals
None == [some |-> FALSE, v |-> 0]
Some(x) == [some |-> TRUE, v |-> x]

\* dict.get(key, default)
Get(doc, key, default) == IF key \in DOMAIN doc THEN doc[key] ELSE default

\* --------------------------------------------------------------- documents
\* Product documents as generate_mock_catalog.py writes them.
DocPsu ==
    [id |-> "rpi-featured-001", manufacturer |-> <<"P","i">>,
     manufacturer_part_number |-> <<"R","1">>, name |-> <<"P","S","U">>,
     description |-> <<"u","s","b">>, category |-> "Raspberry Pi Accessories",
     unit_price |-> 800, quantity_available |-> 500,
     tags |-> << <<"p","i">> >>, use_cases |-> << <<"i","o","t">> >>,
     key_specs |-> [is_dict |-> TRUE,
                   items |-> << <<"interface", "USB-C">>, <<"status", "Active">> >>],
     product_url |-> "u1", datasheet_url |-> "d1"]

DocLed ==
    [id |-> "mock-01-0001", manufacturer |-> <<"L","D">>,
     manufacturer_part_number |-> <<"L","2">>, name |-> <<"L","E","D">>,
     description |-> <<"r","e","d">>, category |-> "LEDs",
     unit_price |-> 100, quantity_available |-> 0,
     tags |-> << <<"l","e","d">> >>, use_cases |-> <<>>,
     key_specs |-> [is_dict |-> TRUE, items |-> << <<"series", "X">> >>],
     product_url |-> "u2", datasheet_url |-> "d2"]

DocUsb ==
    [id |-> "mock-02-0002", manufacturer |-> <<"U","R">>,
     manufacturer_part_number |-> <<"U","3">>, name |-> <<"u","s","b">>,
     description |-> <<"l","e","d">>, category |-> "Connectors",
     unit_price |-> 150, quantity_available |-> 12000,
     tags |-> <<>>, use_cases |-> << <<"p","s","u">> >>,
     key_specs |-> [is_dict |-> TRUE, items |-> <<>>],
     product_url |-> "u3", datasheet_url |-> "d3"]

DocPool == {DocPsu, DocLed, DocUsb}

\* a second part with the price and stock of DocLed, under its own id
DocLedTwin ==
    [DocLed EXCEPT !.id = "mock-01-0000", !.product_url = "u0", !.datasheet_url = "d0"]

\* a document as json.load returns it when the file lacks one of its keys
Without(doc, key) == [k \in (DOMAIN doc) \ {key} |-> doc[k]]

MalformedPool ==
    {Without(DocLed, "name"), Without(DocLed, "category"), Without(DocLed, "id")}

\* sequences without repeated ids, up to MaxDocs long
RECURSIVE CatalogsOver(_, _)
CatalogsOver(pool, n) ==
    IF n = 0 THEN {<<>>}
    ELSE LET shorter == CatalogsOver(pool, n - 1)
         IN shorter \cup
            {Append(c, d) : <<c, d>> \in
                {<<c, d>> \in shorter \X pool :
                    /\ Len(c) = n - 1
                    /\ \A i \in 1..Len(c) : Get(c[i], "id", "") # Get(d, "id", "?")}}

\* the catalog files the service is run over
ServicePool == {DocPsu, DocLed}

WellFormedCatalogs == CatalogsOver(ServicePool, MaxDocs)

\* catalogs holding exactly one document with a missing key
MalformedCatalogs ==
    {c \in CatalogsOver({DocPsu} \cup MalformedPool, MaxDocs) :
        Cardinality({i \in 1..Len(c) : c[i] \in MalformedPool}) = 1}

\* ------------------------------------------------------------ query intents
Kw_psu == <<"P","S","U">>
Kw_the == <<"t","h","e">>
Kw_in_led == <<"i","n",","," ","l","e","d">>
Kw_xyz == <<"x","y","z","?">>
Kw_usb_led == <<"u","s","b"," ","L","E","D","!">>
Kw_in == <<"i","n",",">>
Kw_cheapest == <<"c","h","e","a","p","e","s","t">>
Kw_5v_led == <<"5","V",","," ","l","e","d">>

Keywords ==
    {Kw_psu, Kw_the, Kw_in_led, Kw_xyz, Kw_usb_led, Kw_in, Kw_cheapest, Kw_5v_led, <<>>}

SortPreferences == {"relevance", "price_low", "stock_high"}

\* QueryIntent values (app/models.py): limit >= 1, min_quantity >= 0, max_unit_price > 0
Intents ==
    [keywords : Keywords, limit : 1..MaxLimit, in_stock_only : BOOLEAN,
     min_quantity : {None, Some(600)}, max_unit_price : {None, Some(150)},
     sort_preference : SortPreferences]

\* the intents the request handlers are run with
ServiceIntents ==
    {[keywords |-> k, limit |-> l, in_stock_only |-> s, min_quantity |-> None,
      max_unit_price |-> None, sort_preference |-> "relevance"] :
        k \in {Kw_psu, Kw_the}, l \in 1..MaxLimit, s \in BOOLEAN}
    \cup
    {[keywords |-> Kw_in_led, limit |-> MaxLimit, in_stock_only |-> FALSE,
      min_quantity |-> Some(600), max_unit_price |-> None, sort_preference |-> "price_low"],
     [keywords |-> Kw_in_led, limit |-> MaxLimit, in_stock_only |-> FALSE,
      min_quantity |-> None, max_unit_price |-> Some(150), sort_preference |-> "stock_high"],
     [keywords |-> Kw_xyz, limit |-> 1, in_stock_only |-> TRUE,
      min_quantity |-> Some(600), max_unit_price |-> Some(150),
      sort_preference |-> "relevance"]}

\* ------------------------------------------------------------------ scoring
RECURSIVE GCD(_, _)
GCD(a, b) == IF b = 0 THEN a ELSE GCD(b, a % b)

\* exact fractions n/d with d > 0, kept in lowest terms
Frac(n, d) == LET g == GCD(IF n < 0 THEN -n ELSE n, d) IN [n |-> n \div g, d |-> d \div g]
FracAdd(x, y) == Frac(x.n * y.d + y.n * x.d, x.d * y.d)
FracMin(x, y) == IF x.n * y.d <= y.n * x.d THEN x ELSE y
FracScale(k, x) == Frac(k * x.n, x.d)

\* round(): nearest integer, ties to the even one
RoundHalfEven(x) ==
    LET q == x.n \div x.d
        r == x.n % x.d
    IN  IF 2 * r < x.d THEN q
        ELSE IF 2 * r > x.d THEN q + 1
        ELSE IF q % 2 = 0 THEN q ELSE q + 1

\* the haystack _keyword_coverage builds (every field optional)
CoverageHaystack(doc) ==
    Lower(Join(<<Get(doc, "manufacturer", <<>>), Get(doc, "manufacturer_part_number", <<>>),
                 Get(doc, "name", <<>>), Get(doc, "description", <<>>),
                 Join(Get(doc, "tags", <<>>)), Join(Get(doc, "use_cases", <<>>))>>))

\* _keyword_coverage: a fraction in [0, 1]
KeywordCoverage(query, doc) ==
    LET query_tokens == QueryTokens(query, CoverageStopWords)
        haystack == CoverageHaystack(doc)
        matched == Cardinality({t \in query_tokens : Contains(haystack, t)})
    IN  IF query_tokens = {} THEN Frac(0, 1)
        ELSE Frac(matched, Cardinality(query_tokens))

\* a score that weighs stock 0.15 and coverage 0.05
RecommendationScoreSwappedWeights(raw_score, top_score, doc, coverage) ==
    LET relevance == Frac(raw_score, IF top_score > 1 THEN top_score ELSE 1)
        stock == FracMin(Frac(Get(doc, "quantity_available", 0), 10000), Frac(1, 1))
        price == Get(doc, "unit_price", 0)
        price_score == Frac(100, 100 + (IF price > 0 THEN price ELSE 0))
    IN  RoundHalfEven(
            FracAdd(FracAdd(FracScale(7800, relevance), FracScale(500, coverage)),
                    FracAdd(FracScale(1500, stock), FracScale(200, price_score))))

\* _recommendation_score, in units of 0.0001 (the result of round(..., 4));
\* raw_score and top_score are in units of 0.0001, so 0.0001 is 1
RecommendationScore(raw_score, top_score, doc, coverage) ==
    LET relevance == Frac(raw_score, IF top_score > 1 THEN top_score ELSE 1)
        stock == FracMin(Frac(Get(doc, "quantity_available", 0), 10000), Frac(1, 1))
        price == Get(doc, "unit_price", 0)
        price_score == Frac(100, 100 + (IF price > 0 THEN price ELSE 0))
    IN  RoundHalfEven(
            FracAdd(FracAdd(FracScale(7800, relevance), FracScale(1500, coverage)),
                    FracAdd(FracScale(500, stock), FracScale(200, price_score))))

\* _build_reason: the numbers the text shows (score and coverage to 2 decimals)
BuildReason(doc, recommendation_score, coverage) ==
    [score |-> RoundHalfEven(Frac(recommendation_score, 100)),
     coverage |-> RoundHalfEven(FracScale(100, coverage)),
     stock |-> Get(doc, "quantity_available", 0),
     price |-> Get(doc, "unit_price", 0)]

\* the keys ProductResult(...) reads from a document with doc[...]
ResultKeys ==
    {"id", "manufacturer", "manufacturer_part_number", "name", "description", "category",
     "unit_price", "quantity_available", "product_url", "datasheet_url"}

MakeResult(doc, recommendation_score, fit_reason) ==
    [id |-> doc.id, manufacturer |-> doc.manufacturer,
     manufacturer_part_number |-> doc.manufacturer_part_number, name |-> doc.name,
     description |-> doc.description, category |-> doc.category,
     unit_price |-> doc.unit_price, quantity_available |-> doc.quantity_available,
     product_url |-> doc.product_url, datasheet_url |-> doc.datasheet_url,
     recommendation_score |-> recommendation_score, fit_reason |-> fit_reason]

\* an insertion that puts a result before the results of equal score
RECURSIVE InsertByScoreBeforeEquals(_, _)
InsertByScoreBeforeEquals(sorted, r) ==
    IF sorted = <<>> THEN <<r>>
    ELSE IF Head(sorted).recommendation_score > r.recommendation_score
         THEN <<Head(sorted)>> \o InsertByScoreBeforeEquals(Tail(sorted), r)
         ELSE <<r>> \o sorted

\* list.sort(key=recommendation_score, reverse=True): stable, highest first
RECURSIVE InsertByScore(_, _)
InsertByScore(sorted, r) ==
    IF sorted = <<>> THEN <<r>>
    ELSE IF Head(sorted).recommendation_score >= r.recommendation_score
         THEN <<Head(sorted)>> \o InsertByScore(Tail(sorted), r)
         ELSE <<r>> \o sorted

RECURSIVE SortByScore(_)
SortByScore(results) ==
    IF results = <<>> THEN <<>>
    ELSE InsertByScore(SortByScore(SubSeq(results, 1, Len(results) - 1)),
                       results[Len(results)])

\* results[:limit]
Take(results, limit) == SubSeq(results, 1, IF limit < Len(results) THEN limit ELSE Len(results))

\* ---------------------------------------------------------- fallback search
HaystackKeys == {"manufacturer", "manufacturer_part_number", "name", "description"}

\* the haystack _fallback_search builds (the four text fields read with doc[...])
FallbackHaystack(doc) ==
    Lower(Join(<<doc.manufacturer, doc.manufacturer_part_number, doc.name, doc.description,
                 Join(Get(doc, "tags", <<>>)), Join(Get(doc, "use_cases", <<>>))>>))

\* an iteration that lets a document with no stock pass the in-stock test
FallbackDocKeepsZeroStock(doc, intent, query_tokens) ==
    IF ~(HaystackKeys \subseteq DOMAIN doc) THEN [kind |-> "raise"]
    ELSE
    LET haystack == FallbackHaystack(doc)
        match_score == Cardinality({t \in query_tokens : Contains(haystack, t)})
        coverage == KeywordCoverage(intent.keywords, doc)
        recommendation_score == RecommendationScore(10000, 10000, doc, coverage)
    IN  IF query_tokens # {} /\ match_score = 0 THEN [kind |-> "skip"]
        ELSE IF (intent.in_stock_only \/ intent.min_quantity.some)
                /\ "quantity_available" \notin DOMAIN doc THEN [kind |-> "raise"]
        ELSE IF intent.in_stock_only /\ doc.quantity_available < 0 THEN [kind |-> "skip"]
        ELSE IF intent.min_quantity.some /\ doc.quantity_available < intent.min_quantity.v
             THEN [kind |-> "skip"]
        ELSE IF intent.max_unit_price.some /\ "unit_price" \notin DOMAIN doc
             THEN [kind |-> "raise"]
        ELSE IF intent.max_unit_price.some /\ doc.unit_price > intent.max_unit_price.v
             THEN [kind |-> "skip"]
        ELSE IF ~(ResultKeys \subseteq DOMAIN doc) THEN [kind |-> "raise"]
        ELSE [kind |-> "keep",
              result |-> MakeResult(doc, recommendation_score,
                                    BuildReason(doc, recommendation_score, coverage))]

\* an iteration that never skips a document for matching no token
FallbackDocNoTokenTest(doc, intent, query_tokens) ==
    IF ~(HaystackKeys \subseteq DOMAIN doc) THEN [kind |-> "raise"]
    ELSE
    LET haystack == FallbackHaystack(doc)
        match_score == Cardinality({t \in query_tokens : Contains(haystack, t)})
        coverage == KeywordCoverage(intent.keywords, doc)
        recommendation_score == RecommendationScore(10000, 10000, doc, coverage)
    IN  IF (intent.in_stock_only \/ intent.min_quantity.some)
                /\ "quantity_available" \notin DOMAIN doc THEN [kind |-> "raise"]
        ELSE IF intent.in_stock_only /\ doc.quantity_available <= 0 THEN [kind |-> "skip"]
        ELSE IF intent.min_quantity.some /\ doc.quantity_available < intent.min_quantity.v
             THEN [kind |-> "skip"]
        ELSE IF intent.max_unit_price.some /\ "unit_price" \notin DOMAIN doc
             THEN [kind |-> "raise"]
        ELSE IF intent.max_unit_price.some /\ doc.unit_price > intent.max_unit_price.v
             THEN [kind |-> "skip"]
        ELSE IF ~(ResultKeys \subseteq DOMAIN doc) THEN [kind |-> "raise"]
        ELSE [kind |-> "keep",
              result |-> MakeResult(doc, recommendation_score,
                                    BuildReason(doc, recommendation_score, coverage))]

\* one iteration of the loop of _fallback_search: the document is kept with its
\* result, skipped (continue), or reading a missing key raises KeyError
FallbackDoc(doc, intent, query_tokens) ==
    IF ~(HaystackKeys \subseteq DOMAIN doc) THEN [kind |-> "raise"]
    ELSE
    LET haystack == FallbackHaystack(doc)
        match_score == Cardinality({t \in query_tokens : Contains(haystack, t)})
        coverage == KeywordCoverage(intent.keywords, doc)
        recommendation_score == RecommendationScore(10000, 10000, doc, coverage)
    IN  IF query_tokens # {} /\ match_score = 0 THEN [kind |-> "skip"]
        ELSE IF (intent.in_stock_only \/ intent.min_quantity.some)
                /\ "quantity_available" \notin DOMAIN doc THEN [kind |-> "raise"]
        ELSE IF intent.in_stock_only /\ doc.quantity_available <= 0 THEN [kind |-> "skip"]
        ELSE IF intent.min_quantity.some /\ doc.quantity_available < intent.min_quantity.v
             THEN [kind |-> "skip"]
        ELSE IF intent.max_unit_price.some /\ "unit_price" \notin DOMAIN doc
             THEN [kind |-> "raise"]
        ELSE IF intent.max_unit_price.some /\ doc.unit_price > intent.max_unit_price.v
             THEN [kind |-> "skip"]
        ELSE IF ~(ResultKeys \subseteq DOMAIN doc) THEN [kind |-> "raise"]
        ELSE [kind |-> "keep",
              result |-> MakeResult(doc, recommendation_score,
                                    BuildReason(doc, recommendation_score, coverage))]

\* the loop over self._fallback_docs: the results appended so far, or the KeyError
RECURSIVE FallbackLoop(_, _, _, _)
FallbackLoop(docs, intent, query_tokens, results) ==
    IF docs = <<>> THEN [exc |-> "", results |-> results]
    ELSE LET step == FallbackDoc(Head(docs), intent, query_tokens)
         IN  IF step.kind = "raise" THEN [exc |-> "KeyError", results |-> <<>>]
             ELSE FallbackLoop(Tail(docs), intent, query_tokens,
                               IF step.kind = "keep" THEN Append(results, step.result)
                               ELSE results)

\* a fallback search that cuts the list to the limit before it sorts
FallbackSearchTruncateFirst(fallback_docs, intent) ==
    LET query_tokens == QueryTokens(intent.keywords, FallbackStopWords)
        loop == FallbackLoop(fallback_docs, intent, query_tokens, <<>>)
    IN  IF loop.exc # "" THEN loop
        ELSE [exc |-> "", results |-> SortByScore(Take(loop.results, intent.limit))]

\* CatalogService._fallback_search
FallbackSearch(fallback_docs, intent) ==
    LET query_tokens == QueryTokens(intent.keywords, FallbackStopWords)
        loop == FallbackLoop(fallback_docs, intent, query_tokens, <<>>)
    IN  IF loop.exc # "" THEN loop
        ELSE [exc |-> "", results |-> Take(SortByScore(loop.results), intent.limit)]

\* ------------------------------------------------------------ remote search
\* a request that leaves the size at the engine's default of ten
SearchRequestDefaultSize(intent) ==
    [query |-> intent.keywords,
     filters |->
        (IF intent.in_stock_only THEN <<[field |-> "quantity_available", op |-> "gt", v |-> 0]>>
         ELSE <<>>)
        \o (IF intent.min_quantity.some
            THEN <<[field |-> "quantity_available", op |-> "gte", v |-> intent.min_quantity.v]>>
            ELSE <<>>)
        \o (IF intent.max_unit_price.some
            THEN <<[field |-> "unit_price", op |-> "lte", v |-> intent.max_unit_price.v]>>
            ELSE <<>>),
     size |-> 10,
     sort |-> IF intent.sort_preference = "price_low" THEN <<"unit_price asc", "_score">>
              ELSE IF intent.sort_preference = "stock_high"
                   THEN <<"quantity_available desc", "_score">>
                   ELSE <<"_score">>]

\* the arguments of self._client.search(...)
SearchRequest(intent) ==
    [query |-> intent.keywords,
     filters |->
        (IF intent.in_stock_only THEN <<[field |-> "quantity_available", op |-> "gt", v |-> 0]>>
         ELSE <<>>)
        \o (IF intent.min_quantity.some
            THEN <<[field |-> "quantity_available", op |-> "gte", v |-> intent.min_quantity.v]>>
            ELSE <<>>)
        \o (IF intent.max_unit_price.some
            THEN <<[field |-> "unit_price", op |-> "lte", v |-> intent.max_unit_price.v]>>
            ELSE <<>>),
     size |-> intent.limit,
     sort |-> IF intent.sort_preference = "price_low" THEN <<"unit_price asc", "_score">>
              ELSE IF intent.sort_preference = "stock_high"
                   THEN <<"quantity_available desc", "_score">>
                   ELSE <<"_score">>]

\* hit.get("_score") or default: a missing, None or zero score gives the default
ScoreOr(hit, default) ==
    IF "_score" \in DOMAIN hit /\ hit["_score"] # 0 THEN hit["_score"] ELSE default

MaxOf(S) == CHOOSE x \in S : \A y \in S : y <= x

\* the loop over hits: one ProductResult per hit, or the KeyError of a source
\* that lacks a key ProductResult(...) reads
RECURSIVE HitLoop(_, _, _, _)
HitLoop(hits, intent, top_score, results) ==
    IF hits = <<>> THEN [exc |-> "", results |-> results]
    ELSE LET hit == Head(hits)
             doc == Get(hit, "_source", <<>>)
             score == ScoreOr(hit, 0)
             coverage == KeywordCoverage(intent.keywords, doc)
             recommendation_score == RecommendationScore(score, top_score, doc, coverage)
             reason == BuildReason(doc, recommendation_score, coverage)
         IN  IF ~(ResultKeys \subseteq DOMAIN doc) THEN [exc |-> "KeyError", results |-> <<>>]
             ELSE HitLoop(Tail(hits), intent, top_score,
                          Append(results, MakeResult(doc, recommendation_score, reason)))

\* a remote search that keeps the engine's order when a sort preference is set
SearchElasticsearchKeepEngineOrder(intent, response) ==
    IF response.exc # "" THEN [exc |-> response.exc, results |-> <<>>]
    ELSE LET hits == response.hits
         IN  IF hits = <<>> THEN [exc |-> "", results |-> <<>>]
             ELSE LET top_score == MaxOf({ScoreOr(hits[i], 10000) : i \in 1..Len(hits)})
                      loop == HitLoop(hits, intent, top_score, <<>>)
                  IN  IF loop.exc # "" THEN loop
                      ELSE [exc |-> "",
                            results |-> IF intent.sort_preference = "relevance"
                                        THEN SortByScore(loop.results) ELSE loop.results]

\* CatalogService._search_elasticsearch; response is what self._client.search
\* did: raised (exc), or answered with a list of hits
SearchElasticsearch(intent, response) ==
    IF response.exc # "" THEN [exc |-> response.exc, results |-> <<>>]
    ELSE LET hits == response.hits
         IN  IF hits = <<>> THEN [exc |-> "", results |-> <<>>]
             ELSE LET top_score == MaxOf({ScoreOr(hits[i], 10000) : i \in 1..Len(hits)})
                      loop == HitLoop(hits, intent, top_score, <<>>)
                  IN  IF loop.exc # "" THEN loop
                      ELSE [exc |-> "", results |-> SortByScore(loop.results)]

\* ------------------------------------------------------------------- search
FallbackModeWarning ==
    <<"Results", "are", "from", "fallback", "data,", "not", "Elasticsearch.">>

QueryFailedWarning(exc) ==
    <<"Elasticsearch", "query", "failed", "(", exc, ");", "using", "fallback", "data.">>

\* the shape of what search gives back
FallbackReply(fb, warning, remote) ==
    [outcome |-> IF fb.exc = "" THEN "return" ELSE "raise", exc |-> fb.exc,
     results |-> fb.results, warning |-> IF fb.exc = "" THEN warning ELSE None,
     remote |-> remote, fallback_called |-> TRUE]

RemoteReply(es) ==
    [outcome |-> "return", exc |-> "", results |-> es.results, warning |-> None,
     remote |-> "answered", fallback_called |-> FALSE]

\* a search that gives no warning in fallback mode when a client is held
SearchQuietWhenConnected(mode, client, fallback_docs, intent, response) ==
    IF mode # "elasticsearch" \/ client = "None"
    THEN FallbackReply(FallbackSearch(fallback_docs, intent),
                       IF client = "None" THEN Some(FallbackModeWarning) ELSE None,
                       "not called")
    ELSE LET es == SearchElasticsearch(intent, response)
         IN  IF es.exc = "" THEN RemoteReply(es)
             ELSE FallbackReply(FallbackSearch(fallback_docs, intent),
                                Some(QueryFailedWarning(es.exc)), "raised")

\* a search that answers a failed remote query with nothing and no warning
SearchSilentOnError(mode, client, fallback_docs, intent, response) ==
    IF mode # "elasticsearch" \/ client = "None"
    THEN FallbackReply(FallbackSearch(fallback_docs, intent), Some(FallbackModeWarning),
                       "not called")
    ELSE LET es == SearchElasticsearch(intent, response)
         IN  IF es.exc = "" THEN RemoteReply(es)
             ELSE [outcome |-> "return", exc |-> "", results |-> <<>>, warning |-> None,
                   remote |-> "raised", fallback_called |-> FALSE]

\* a search that dispatches on the client alone, whatever the mode
SearchByClientOnly(mode, client, fallback_docs, intent, response) ==
    IF client = "None"
    THEN FallbackReply(FallbackSearch(fallback_docs, intent), Some(FallbackModeWarning),
                       "not called")
    ELSE LET es == SearchElasticsearch(intent, response)
         IN  IF es.exc = "" THEN RemoteReply(es)
             ELSE FallbackReply(FallbackSearch(fallback_docs, intent),
                                Some(QueryFailedWarning(es.exc)), "raised")

\* a search that treats an empty remote answer as a failure
SearchFallbackOnEmpty(mode, client, fallback_docs, intent, response) ==
    IF mode # "elasticsearch" \/ client = "None"
    THEN FallbackReply(FallbackSearch(fallback_docs, intent), Some(FallbackModeWarning),
                       "not called")
    ELSE LET es == SearchElasticsearch(intent, response)
         IN  IF es.exc = "" /\ es.results # <<>> THEN RemoteReply(es)
             ELSE FallbackReply(FallbackSearch(fallback_docs, intent),
                                Some(QueryFailedWarning(es.exc)),
                                IF es.exc = "" THEN "answered" ELSE "raised")

\* a search that warns in fallback mode only when it has results to show
SearchNoWarningWhenEmpty(mode, client, fallback_docs, intent, response) ==
    IF mode # "elasticsearch" \/ client = "None"
    THEN LET fb == FallbackSearch(fallback_docs, intent)
         IN  FallbackReply(fb, IF fb.results = <<>> THEN None ELSE Some(FallbackModeWarning),
                           "not called")
    ELSE LET es == SearchElasticsearch(intent, response)
         IN  IF es.exc = "" THEN RemoteReply(es)
             ELSE FallbackReply(FallbackSearch(fallback_docs, intent),
                                Some(QueryFailedWarning(es.exc)), "raised")

\* CatalogService.search: what the call did and gave back.  response is the
\* remote engine's behaviour should the call reach it.
Search(mode, client, fallback_docs, intent, response) ==
    IF mode # "elasticsearch" \/ client = "None"
    THEN FallbackReply(FallbackSearch(fallback_docs, intent), Some(FallbackModeWarning),
                       "not called")
    ELSE LET es == SearchElasticsearch(intent, response)
         IN  IF es.exc = "" THEN RemoteReply(es)
             ELSE FallbackReply(FallbackSearch(fallback_docs, intent),
                                Some(QueryFailedWarning(es.exc)), "raised")

\* ------------------------------------------------------- connection manager
\* what one attempt of the loop does: the constructor raises, ping() raises,
\* ping() answers False, or ping() answers True
AttemptOutcomes == {"construct raises", "ping raises", "ping false", "ping true"}

\* CatalogService._connect_with_retry: attempts[i] is what attempt i does if
\* the loop gets to it.  Gives the client (or "None"), the number of attempts
\* made, of ping() calls and of time.sleep calls.
RECURSIVE ConnectLoop(_, _, _, _)
ConnectLoop(max_attempts, attempts, i, pings) ==
    IF i > max_attempts
    THEN [client |-> "None", exc |-> "", tried |-> i - 1, pings |-> pings, sleeps |-> i - 1]
    ELSE IF attempts[i] = "ping true"
         THEN [client |-> "client", exc |-> "", tried |-> i, pings |-> pings + 1,
               sleeps |-> i - 1]
         ELSE ConnectLoop(max_attempts, attempts, i + 1,
                          IF attempts[i] = "construct raises" THEN pings ELSE pings + 1)

\* a connection manager that gives up after the first failed attempt
ConnectWithRetryNoRetry(max_attempts, attempts) ==
    IF max_attempts >= 1 /\ attempts[1] = "ping true"
    THEN [client |-> "client", exc |-> "", tried |-> 1, pings |-> 1, sleeps |-> 0]
    ELSE [client |-> "None", exc |-> "", tried |-> IF max_attempts >= 1 THEN 1 ELSE 0,
          pings |-> IF max_attempts >= 1 /\ attempts[1] # "construct raises" THEN 1 ELSE 0,
          sleeps |-> IF max_attempts >= 1 THEN 1 ELSE 0]

ConnectWithRetry(max_attempts, attempts) == ConnectLoop(max_attempts, attempts, 1, 0)

\* ---------------------------------------------------- index lifecycle manager
\* The remote engine's index: whether it exists and its documents by _id.
\* fault names the one engine call of this startup that raises, if any.
EngineFaults == {"none", "exists", "create", "count", "bulk"}

Count(index) == Cardinality(DOMAIN index.docs)

\* the mapping _ensure_index creates the index with: the type of each property
IndexMapping ==
    [id |-> "keyword", manufacturer |-> "text+keyword",
     manufacturer_part_number |-> "keyword", name |-> "text", description |-> "text",
     category |-> "text+keyword", unit_price |-> "float", quantity_available |-> "integer",
     tags |-> "text", use_cases |-> "text", spec_blob |-> "text",
     product_url |-> "keyword, not indexed", datasheet_url |-> "keyword, not indexed"]

\* an index that does not exist has no mapping
NoMapping == [k \in {} |-> ""]

\* the mapping of an index the engine created on a first write, types guessed
DynamicMapping ==
    [id |-> "text+keyword", name |-> "text+keyword", unit_price |-> "float",
     quantity_available |-> "long"]

\* an index creation that does not ask first whether the index exists
EnsureIndexAlwaysCreates(index, fault) ==
    IF fault = "exists"
    THEN [exc |-> "TransportError", index |-> index, exists_calls |-> 1, create_calls |-> 0]
    ELSE IF fault = "create"
    THEN [exc |-> "TransportError", index |-> index, exists_calls |-> 1, create_calls |-> 1]
    ELSE [exc |-> "",
          index |-> [exists |-> TRUE, docs |-> index.docs, mapping |-> IndexMapping],
          exists_calls |-> 1, create_calls |-> 1]

\* CatalogService._ensure_index
EnsureIndex(index, fault) ==
    IF fault = "exists"
    THEN [exc |-> "TransportError", index |-> index, exists_calls |-> 1, create_calls |-> 0]
    ELSE IF index.exists
    THEN [exc |-> "", index |-> index, exists_calls |-> 1, create_calls |-> 0]
    ELSE IF fault = "create"
    THEN [exc |-> "TransportError", index |-> index, exists_calls |-> 1, create_calls |-> 1]
    ELSE [exc |-> "",
          index |-> [exists |-> TRUE, docs |-> index.docs, mapping |-> IndexMapping],
          exists_calls |-> 1, create_calls |-> 1]

\* _spec_blob_from_doc: the words of " ".join(f"{key} {value}" ...)
RECURSIVE SpecWords(_)
SpecWords(items) ==
    IF items = <<>> THEN <<>> ELSE <<Head(items)[1], Head(items)[2]>> \o SpecWords(Tail(items))

SpecBlobFromDoc(doc) ==
    LET specs == Get(doc, "key_specs", [is_dict |-> TRUE, items |-> <<>>])
    IN  IF ~specs.is_dict THEN <<>> ELSE SpecWords(specs.items)

\* a spec blob computation that empties the specification map it read
SpecBlobCallConsumesSpecs(doc) ==
    [value |-> SpecBlobFromDoc(doc),
     doc |-> IF "key_specs" \in DOMAIN doc
             THEN [doc EXCEPT !.key_specs = [is_dict |-> TRUE, items |-> <<>>]] ELSE doc]

\* a call of _spec_blob_from_doc: the string it returns and the document it
\* was given as the call leaves it (doc.get and specs.items() only read)
SpecBlobCall(doc) == [value |-> SpecBlobFromDoc(doc), doc |-> doc]

\* doc_copy = dict(doc); doc_copy["spec_blob"] = _spec_blob_from_doc(doc_copy)
WithSpecBlob(doc) ==
    [k \in (DOMAIN doc) \cup {"spec_blob"} |->
        IF k = "spec_blob" THEN SpecBlobCall(doc).value ELSE doc[k]]

\* the bulk actions, in catalog order: _id and _source of each
Actions(fallback_docs) ==
    [i \in 1..Len(fallback_docs) |->
        [id |-> fallback_docs[i].id, source |-> WithSpecBlob(fallback_docs[i])]]

\* a loop that writes each spec blob into the catalog's own document
CatalogAfterActionsInPlace(fallback_docs) ==
    [i \in 1..Len(fallback_docs) |-> WithSpecBlob(fallback_docs[i])]

\* self._fallback_docs after the loop that built the actions: the blob is
\* written to doc_copy = dict(doc), never to doc
CatalogAfterActions(fallback_docs) == fallback_docs

\* the index after the engine applied the actions numbered in written, in order
RECURSIVE ApplyActions(_, _, _, _)
ApplyActions(docs, actions, written, i) ==
    IF i > Len(actions) THEN docs
    ELSE ApplyActions(
            IF i \in written
            THEN [k \in (DOMAIN docs) \cup {actions[i].id} |->
                    IF k = actions[i].id THEN actions[i].source ELSE docs[k]]
            ELSE docs,
            actions, written, i + 1)

\* a seeding that bulk-loads whatever the count is
SeedIfEmptyNoGuard(fallback_docs, index, fault, written) ==
    IF fault = "count" \/ ~index.exists
    THEN [exc |-> "TransportError", index |-> index, count_calls |-> 1, bulk_calls |-> 0]
    ELSE IF \E i \in 1..Len(fallback_docs) : "id" \notin DOMAIN fallback_docs[i]
    THEN [exc |-> "KeyError", index |-> index, count_calls |-> 1, bulk_calls |-> 0]
    ELSE IF fallback_docs = <<>>
    THEN [exc |-> "", index |-> index, count_calls |-> 1, bulk_calls |-> 0]
    ELSE [exc |-> IF fault = "bulk" THEN "BulkIndexError" ELSE "",
          index |-> [index EXCEPT !.docs = ApplyActions(index.docs, Actions(fallback_docs),
                        IF fault = "bulk" THEN written
                        ELSE 1..Len(fallback_docs), 1)],
          count_calls |-> 1, bulk_calls |-> 1]

\* a seeding that bulk-loads on every call and lets the engine number the documents
SeedIfEmptyAppend(fallback_docs, index, fault, written) ==
    IF fault = "count" \/ ~index.exists
    THEN [exc |-> "TransportError", index |-> index, count_calls |-> 1, bulk_calls |-> 0]
    ELSE IF fallback_docs = <<>>
    THEN [exc |-> "", index |-> index, count_calls |-> 1, bulk_calls |-> 0]
    ELSE LET actions == [i \in 1..Len(fallback_docs) |->
                            [id |-> "auto-" \o ToString(Count(index) + i),
                             source |-> WithSpecBlob(fallback_docs[i])]]
         IN  [exc |-> IF fault = "bulk" THEN "BulkIndexError" ELSE "",
              index |-> [index EXCEPT !.docs = ApplyActions(index.docs, actions,
                        IF fault = "bulk" THEN written
                        ELSE 1..Len(fallback_docs), 1)],
              count_calls |-> 1, bulk_calls |-> 1]

\* CatalogService._seed_if_empty; when helpers.bulk raises, written is the set
\* of actions the engine had applied
SeedIfEmpty(fallback_docs, index, fault, written) ==
    IF fault = "count" \/ ~index.exists
    THEN [exc |-> "TransportError", index |-> index, count_calls |-> 1, bulk_calls |-> 0]
    ELSE IF Count(index) > 0
    THEN [exc |-> "", index |-> index, count_calls |-> 1, bulk_calls |-> 0]
    ELSE IF \E i \in 1..Len(fallback_docs) : "id" \notin DOMAIN fallback_docs[i]
    THEN [exc |-> "KeyError", index |-> index, count_calls |-> 1, bulk_calls |-> 0]
    ELSE IF fallback_docs = <<>>
    THEN [exc |-> "", index |-> index, count_calls |-> 1, bulk_calls |-> 0]
    ELSE LET actions == Actions(fallback_docs)
         IN  IF fault = "bulk"
             THEN [exc |-> "BulkIndexError",
                   index |-> [index EXCEPT !.docs = ApplyActions(index.docs, actions, written, 1)],
                   count_calls |-> 1, bulk_calls |-> 1]
             ELSE [exc |-> "",
                   index |-> [index EXCEPT
                                !.docs = ApplyActions(index.docs, actions, 1..Len(actions), 1)],
                   count_calls |-> 1, bulk_calls |-> 1]

\* --------------------------------------------------------------- initialize
UnavailableWarning ==
    <<"Elasticsearch", "is", "unavailable;", "using", "local", "fallback", "catalog.">>

\* an initialize that sets the mode before it provisions the index
InitializeModeFirst(mode, client, fallback_docs, index, max_attempts, attempts, fault, written) ==
    LET conn == ConnectWithRetry(max_attempts, attempts)
        base == [op |-> "initialize", tried |-> conn.tried, pings |-> conn.pings,
                 sleeps |-> conn.sleeps, connected |-> conn.client # "None"]
    IN  IF conn.client = "None"
        THEN [mode |-> "fallback", client |-> client, index |-> index,
              call |-> base @@ [outcome |-> "return", exc |-> "",
                                value |-> Some(UnavailableWarning),
                                ensure_calls |-> 0, seed_calls |-> 0, exists_calls |-> 0,
                                create_calls |-> 0, count_calls |-> 0, bulk_calls |-> 0]]
        ELSE LET ens == EnsureIndex(index, fault)
             IN  IF ens.exc # ""
                 THEN [mode |-> "elasticsearch", client |-> conn.client, index |-> ens.index,
                       call |-> base @@ [outcome |-> "raise", exc |-> ens.exc, value |-> None,
                                         ensure_calls |-> 1, seed_calls |-> 0,
                                         exists_calls |-> ens.exists_calls,
                                         create_calls |-> ens.create_calls,
                                         count_calls |-> 0, bulk_calls |-> 0]]
                 ELSE LET seed == SeedIfEmpty(fallback_docs, ens.index, fault, written)
                          calls == [ensure_calls |-> 1, seed_calls |-> 1,
                                    exists_calls |-> ens.exists_calls,
                                    create_calls |-> ens.create_calls,
                                    count_calls |-> seed.count_calls,
                                    bulk_calls |-> seed.bulk_calls]
                      IN  IF seed.exc # ""
                          THEN [mode |-> "elasticsearch", client |-> conn.client, index |-> seed.index,
                                call |-> base @@ calls @@
                                         [outcome |-> "raise", exc |-> seed.exc,
                                          value |-> None]]
                          ELSE [mode |-> "elasticsearch", client |-> conn.client,
                                index |-> seed.index,
                                call |-> base @@ calls @@
                                         [outcome |-> "return", exc |-> "", value |-> None]]

\* an initialize that reports an unavailable engine by returning nothing
InitializeNoWarning(mode, client, fallback_docs, index, max_attempts, attempts, fault, written) ==
    LET conn == ConnectWithRetry(max_attempts, attempts)
        base == [op |-> "initialize", tried |-> conn.tried, pings |-> conn.pings,
                 sleeps |-> conn.sleeps, connected |-> conn.client # "None"]
    IN  IF conn.client = "None"
        THEN [mode |-> "fallback", client |-> client, index |-> index,
              call |-> base @@ [outcome |-> "return", exc |-> "",
                                value |-> None,
                                ensure_calls |-> 0, seed_calls |-> 0, exists_calls |-> 0,
                                create_calls |-> 0, count_calls |-> 0, bulk_calls |-> 0]]
        ELSE LET ens == EnsureIndex(index, fault)
             IN  IF ens.exc # ""
                 THEN [mode |-> mode, client |-> conn.client, index |-> ens.index,
                       call |-> base @@ [outcome |-> "raise", exc |-> ens.exc, value |-> None,
                                         ensure_calls |-> 1, seed_calls |-> 0,
                                         exists_calls |-> ens.exists_calls,
                                         create_calls |-> ens.create_calls,
                                         count_calls |-> 0, bulk_calls |-> 0]]
                 ELSE LET seed == SeedIfEmpty(fallback_docs, ens.index, fault, written)
                          calls == [ensure_calls |-> 1, seed_calls |-> 1,
                                    exists_calls |-> ens.exists_calls,
                                    create_calls |-> ens.create_calls,
                                    count_calls |-> seed.count_calls,
                                    bulk_calls |-> seed.bulk_calls]
                      IN  IF seed.exc # ""
                          THEN [mode |-> mode, client |-> conn.client, index |-> seed.index,
                                call |-> base @@ calls @@
                                         [outcome |-> "raise", exc |-> seed.exc,
                                          value |-> None]]
                          ELSE [mode |-> "elasticsearch", client |-> conn.client,
                                index |-> seed.index,
                                call |-> base @@ calls @@
                                         [outcome |-> "return", exc |-> "", value |-> None]]

\* an initialize that carries on in remote mode when seeding raised
InitializeSwallowsSeedError(mode, client, fallback_docs, index, max_attempts, attempts, fault, written) ==
    LET conn == ConnectWithRetry(max_attempts, attempts)
        base == [op |-> "initialize", tried |-> conn.tried, pings |-> conn.pings,
                 sleeps |-> conn.sleeps, connected |-> conn.client # "None"]
    IN  IF conn.client = "None"
        THEN [mode |-> "fallback", client |-> client, index |-> index,
              call |-> base @@ [outcome |-> "return", exc |-> "",
                                value |-> Some(UnavailableWarning),
                                ensure_calls |-> 0, seed_calls |-> 0, exists_calls |-> 0,
                                create_calls |-> 0, count_calls |-> 0, bulk_calls |-> 0]]
        ELSE LET ens == EnsureIndex(index, fault)
             IN  IF ens.exc # ""
                 THEN [mode |-> mode, client |-> conn.client, index |-> ens.index,
                       call |-> base @@ [outcome |-> "raise", exc |-> ens.exc, value |-> None,
                                         ensure_calls |-> 1, seed_calls |-> 0,
                                         exists_calls |-> ens.exists_calls,
                                         create_calls |-> ens.create_calls,
                                         count_calls |-> 0, bulk_calls |-> 0]]
                 ELSE LET seed == SeedIfEmpty(fallback_docs, ens.index, fault, written)
                          calls == [ensure_calls |-> 1, seed_calls |-> 1,
                                    exists_calls |-> ens.exists_calls,
                                    create_calls |-> ens.create_calls,
                                    count_calls |-> seed.count_calls,
                                    bulk_calls |-> seed.bulk_calls]
                      IN  IF seed.exc # ""
                          THEN [mode |-> "elasticsearch", client |-> conn.client,
                                index |-> seed.index,
                                call |-> base @@ calls @@
                                         [outcome |-> "return", exc |-> "", value |-> None]]
                          ELSE [mode |-> "elasticsearch", client |-> conn.client,
                                index |-> seed.index,
                                call |-> base @@ calls @@
                                         [outcome |-> "return", exc |-> "", value |-> None]]

\* CatalogService.initialize: the new mode, client and index, and what the
\* call did and gave back
Initialize(mode, client, fallback_docs, index, max_attempts, attempts, fault, written) ==
    LET conn == ConnectWithRetry(max_attempts, attempts)
        base == [op |-> "initialize", tried |-> conn.tried, pings |-> conn.pings,
                 sleeps |-> conn.sleeps, connected |-> conn.client # "None"]
    IN  IF conn.client = "None"
        THEN [mode |-> "fallback", client |-> client, index |-> index,
              call |-> base @@ [outcome |-> "return", exc |-> "",
                                value |-> Some(UnavailableWarning),
                                ensure_calls |-> 0, seed_calls |-> 0, exists_calls |-> 0,
                                create_calls |-> 0, count_calls |-> 0, bulk_calls |-> 0]]
        ELSE LET ens == EnsureIndex(index, fault)
             IN  IF ens.exc # ""
                 THEN [mode |-> mode, client |-> conn.client, index |-> ens.index,
                       call |-> base @@ [outcome |-> "raise", exc |-> ens.exc, value |-> None,
                                         ensure_calls |-> 1, seed_calls |-> 0,
                                         exists_calls |-> ens.exists_calls,
                                         create_calls |-> ens.create_calls,
                                         count_calls |-> 0, bulk_calls |-> 0]]
                 ELSE LET seed == SeedIfEmpty(fallback_docs, ens.index, fault, written)
                          calls == [ensure_calls |-> 1, seed_calls |-> 1,
                                    exists_calls |-> ens.exists_calls,
                                    create_calls |-> ens.create_calls,
                                    count_calls |-> seed.count_calls,
                                    bulk_calls |-> seed.bulk_calls]
                      IN  IF seed.exc # ""
                          THEN [mode |-> mode, client |-> conn.client, index |-> seed.index,
                                call |-> base @@ calls @@
                                         [outcome |-> "raise", exc |-> seed.exc,
                                          value |-> None]]
                          ELSE [mode |-> "elasticsearch", client |-> conn.client,
                                index |-> seed.index,
                                call |-> base @@ calls @@
                                         [outcome |-> "return", exc |-> "", value |-> None]]

\* ------------------------------------------------------------ remote engine
EmptyDocs == [k \in {} |-> 0]

\* a document an earlier deployment indexed under the id of a seed document
StaleLed == [WithSpecBlob(DocLed) EXCEPT !.unit_price = 90, !.quantity_available = 700]

\* a document some other writer indexed, without the keys the service reads
ForeignDoc == [id |-> "x-1", name |-> <<"l","e","d">>, quantity_available |-> 5]

\* what the index can hold when a process first starts
InitialIndexes ==
    {[exists |-> FALSE, docs |-> EmptyDocs, mapping |-> NoMapping],
     [exists |-> TRUE, docs |-> EmptyDocs, mapping |-> IndexMapping],
     [exists |-> TRUE, docs |-> ("mock-01-0001" :> StaleLed), mapping |-> IndexMapping],
     [exists |-> TRUE, docs |-> ("x-1" :> ForeignDoc), mapping |-> DynamicMapping]}

\* engine scores in units of 0.0001; a hit may also carry no score
EngineScores == {5000, 25000}

\* the range filters of a request, as the engine applies them
Matches(doc, request) ==
    \A i \in 1..Len(request.filters) :
        LET f == request.filters[i]
        IN  /\ f.field \in DOMAIN doc
            /\ CASE f.op = "gt" -> doc[f.field] > f.v
                 [] f.op = "gte" -> doc[f.field] >= f.v
                 [] f.op = "lte" -> doc[f.field] <= f.v

HitsOf(doc) ==
    {("_source" :> doc)} \cup {("_source" :> doc) @@ ("_score" :> sc) : sc \in EngineScores}

\* hit lists of at most n hits, no document twice
RECURSIVE HitLists(_, _)
HitLists(docs, n) ==
    IF n = 0 THEN {<<>>}
    ELSE LET shorter == HitLists(docs, n - 1)
         IN shorter \cup
            UNION {{Append(hs, h) : h \in HitsOf(d)} : <<hs, d>> \in
                {<<hs, d>> \in shorter \X docs :
                    /\ Len(hs) = n - 1
                    /\ \A i \in 1..Len(hs) : hs[i]["_source"] # d}}

EngineErrors == {"ConnectionTimeout", "TransportError"}

\* what self._client.search can do with a request: raise, or answer with at
\* most size hits over documents of the index that pass the filters
Responses(index, request) ==
    {[exc |-> e, hits |-> <<>>] : e \in EngineErrors}
    \cup {[exc |-> "", hits |-> hs] : hs \in
            HitLists({index.docs[k] : k \in {j \in DOMAIN index.docs :
                                              Matches(index.docs[j], request)}},
                     IF request.size < MaxHits THEN request.size ELSE MaxHits)}

\* ----------------------------------------------------------- chat endpoint
\* the intents interpreter.interpret hands to the chat handler: QueryIntent
\* values with and without each constraint and with any sort preference
ChatConstraints ==
    {[in_stock_only |-> FALSE, min_quantity |-> None, max_unit_price |-> None,
      sort_preference |-> "relevance"],
     [in_stock_only |-> TRUE, min_quantity |-> None, max_unit_price |-> None,
      sort_preference |-> "price_low"],
     [in_stock_only |-> FALSE, min_quantity |-> Some(600), max_unit_price |-> None,
      sort_preference |-> "stock_high"],
     [in_stock_only |-> FALSE, min_quantity |-> None, max_unit_price |-> Some(150),
      sort_preference |-> "relevance"],
     [in_stock_only |-> TRUE, min_quantity |-> Some(600), max_unit_price |-> Some(150),
      sort_preference |-> "price_low"]}

ChatIntents ==
    {[keywords |-> k, limit |-> l] @@ c :
        k \in {Kw_the, Kw_in_led}, l \in 1..MaxLimit, c \in ChatConstraints}

\* the QueryIntent _query_mock_products builds from its two arguments
MockQueryIntent(query, limit) ==
    [keywords |-> query, limit |-> limit, in_stock_only |-> FALSE,
     min_quantity |-> None, max_unit_price |-> None, sort_preference |-> "relevance"]

\* each result copied, field by field, into a DirectSearchProduct
MappedProducts(results) ==
    [i \in 1..Len(results) |-> [k \in DOMAIN results[i] |-> results[i][k]]]

\* what _query_mock_products gives back for what catalog.search gave
QueryReturn(intent, reply) ==
    [intent |-> intent, reply |-> reply,
     mapped |-> IF reply.outcome = "raise" THEN <<>> ELSE MappedProducts(reply.results),
     warning |-> reply.warning]

\* a lookup that leaves in_stock_only at its default
QueryMockProductsInStockOnly(mode, client, fallback_docs, query, limit, response) ==
    QueryReturn([MockQueryIntent(query, limit) EXCEPT !.in_stock_only = TRUE],
                Search(mode, client, fallback_docs,
                       [MockQueryIntent(query, limit) EXCEPT !.in_stock_only = TRUE],
                       response))

\* _query_mock_products: search with the query and the limit alone
QueryMockProducts(mode, client, fallback_docs, query, limit, response) ==
    QueryReturn(MockQueryIntent(query, limit),
                Search(mode, client, fallback_docs, MockQueryIntent(query, limit),
                       response))

\* _direct_to_product_result: `id or manufacturer_part_number or product-rank`,
\* and the other fields as given (none of them is None in a copied result)
DirectToProductResult(item, rank) ==
    [item EXCEPT !.id = IF item.id # "" THEN item.id
                        ELSE IF item.manufacturer_part_number # <<>>
                             THEN item.manufacturer_part_number
                             ELSE <<"product-", rank>>]

\* _apply_intent_constraints: the three filters in turn, then [:limit]
ApplyIntentConstraints(products, intent) ==
    LET InStock(p) == p.quantity_available > 0
        Enough(p) == p.quantity_available >= intent.min_quantity.v
        Affordable(p) == p.unit_price <= intent.max_unit_price.v
        stocked == IF intent.in_stock_only THEN SelectSeq(products, InStock)
                   ELSE products
        enough == IF intent.min_quantity.some THEN SelectSeq(stocked, Enough)
                  ELSE stocked
        affordable == IF intent.max_unit_price.some THEN SelectSeq(enough, Affordable)
                      ELSE enough
    IN  Take(affordable, intent.limit)

\* " ".join(warning_parts) over texts kept as lists of words
RECURSIVE JoinWarnings(_)
JoinWarnings(parts) ==
    IF parts = <<>> THEN <<>> ELSE Head(parts) \o JoinWarnings(Tail(parts))

\* the warning of the response: the truthy ones of the two, joined, or None
ChatWarning(startup_warning, query_warning) ==
    LET Part(w) == IF w.some /\ w.v # <<>> THEN <<w.v>> ELSE <<>>
        warning_parts == Part(startup_warning) \o Part(query_warning)
    IN  IF warning_parts = <<>> THEN None ELSE Some(JoinWarnings(warning_parts))

\* the products of chat before the constraints: rank is the position from 0
ChatProducts(mapped) ==
    [i \in 1..Len(mapped) |-> DirectToProductResult(mapped[i], i - 1)]

\* what chat gives back for what _query_mock_products gave
ChatReturn(startup_warning, intent, query) ==
    IF query.reply.outcome = "raise"
    THEN [outcome |-> "raise", exc |-> query.reply.exc, query |-> query.intent,
          catalog |-> <<>>, query_warning |-> None, products |-> <<>>,
          warning |-> None]
    ELSE [outcome |-> "return", exc |-> "", query |-> query.intent,
          catalog |-> query.reply.results, query_warning |-> query.warning,
          products |-> ApplyIntentConstraints(ChatProducts(query.mapped), intent),
          warning |-> ChatWarning(startup_warning, query.warning)]

\* chat, from the interpreted intent on
Chat(mode, client, fallback_docs, startup_warning, intent, response) ==
    ChatReturn(startup_warning, intent,
               QueryMockProducts(mode, client, fallback_docs, intent.keywords,
                                 intent.limit, response))

\* -------------------------------------------------------------------- state
VARIABLES
    mode,              \* self._mode
    client,            \* self._client: "None" or the connected client
    fallback_docs,     \* self._fallback_docs
    connect_attempts,  \* self.connect_attempts
    index,             \* the remote engine's index self.es_index
    startup,           \* how this process's initialize call ended, if made
    startups,          \* processes started so far
    last               \* the latest call of the service and what it did

vars == <<mode, client, fallback_docs, connect_attempts, index, startup, startups, last>>

\* CatalogService.__init__ of the first process, over a catalog file of catalogs
InitOver(catalogs) ==
    /\ mode = "fallback"
    /\ client = "None"
    /\ fallback_docs \in catalogs
    /\ connect_attempts \in {-1, 0, MaxAttempts}
    /\ index \in InitialIndexes
    /\ startup = "not called"
    /\ startups = 1
    /\ last = [op |-> "construct"]

Init == InitOver(WellFormedCatalogs)

\* the lifespan hook calls initialize once per process (app/main.py)
DoInitialize ==
    /\ startup = "not called"
    /\ \E attempts \in [1..(IF connect_attempts > 0 THEN connect_attempts ELSE 0)
                            -> AttemptOutcomes],
          fault \in EngineFaults,
          written \in SUBSET (1..Len(fallback_docs)) :
        /\ fault # "bulk" => written = {}
        /\ (\A i \in DOMAIN attempts : attempts[i] # "ping true") => fault = "none"
        /\ LET r == Initialize(mode, client, fallback_docs, index, connect_attempts,
                               attempts, fault, written)
           IN  /\ mode' = r.mode
               /\ client' = r.client
               /\ index' = r.index
               /\ last' = r.call @@ [attempts |-> attempts]
               /\ startup' = IF r.call.outcome = "raise" THEN "raised"
                             ELSE IF r.call.value.some THEN "unavailable" ELSE "ready"
               /\ fallback_docs' = IF r.call.bulk_calls = 1
                                   THEN CatalogAfterActions(fallback_docs)
                                   ELSE fallback_docs
    /\ UNCHANGED <<connect_attempts, startups>>

NoResponse == [exc |-> "", hits |-> <<>>]

\* a request handler calls catalog.search(intent)
DoSearch ==
    /\ \E intent \in ServiceIntents :
         \E response \in (IF mode # "elasticsearch" \/ client = "None" THEN {NoResponse}
                          ELSE Responses(index, SearchRequest(intent))) :
            last' = [op |-> "search", intent |-> intent, response |-> response]
                    @@ Search(mode, client, fallback_docs, intent, response)
    /\ UNCHANGED <<mode, client, fallback_docs, connect_attempts, index, startup, startups>>

\* the health handler reads catalog.mode
DoMode ==
    /\ last' = [op |-> "mode", value |-> mode]
    /\ UNCHANGED <<mode, client, fallback_docs, connect_attempts, index, startup, startups>>

\* the process ends and a new one constructs its CatalogService over the same
\* catalog file and environment; the remote index persists
Restart ==
    /\ startups < MaxStartups
    /\ startups' = startups + 1
    /\ mode' = "fallback"
    /\ client' = "None"
    /\ startup' = "not called"
    /\ last' = [op |-> "construct"]
    /\ UNCHANGED <<fallback_docs, connect_attempts, index>>

Next == DoInitialize \/ DoSearch \/ DoMode \/ Restart

Spec == Init /\ [][Next]_vars

\* the same service over catalog files that may lack a key in one document
InitAnyCatalog == InitOver(WellFormedCatalogs \cup MalformedCatalogs)

SpecAnyCatalog == InitAnyCatalog /\ [][Next]_vars

TypeOK ==
    /\ mode \in {"fallback", "elasticsearch"}
    /\ client \in {"None", "client"}
    /\ startup \in {"not called", "unavailable", "ready", "raised"}
    /\ startups \in 1..MaxStartups

\* ------------------------------------------------ seeding called repeatedly
\* _seed_if_empty called again and again on one connected service, each call
\* logged with whether it returned and the document count it left
InitSeed ==
    /\ mode = "fallback"
    /\ client = "client"
    /\ fallback_docs \in CatalogsOver(DocPool, MaxDocs)
    /\ connect_attempts = 0
    /\ index \in {i \in InitialIndexes : i.exists}
    /\ startup = "not called"
    /\ startups = 1
    /\ last = [op |-> "seed", returned |-> <<>>, counts |-> <<>>]

DoSeedIfEmpty ==
    /\ Len(last.counts) < MaxSeedCalls
    /\ \E fault \in {"none", "count", "bulk"}, written \in SUBSET (1..Len(fallback_docs)) :
        /\ fault # "bulk" => written = {}
        /\ LET r == SeedIfEmpty(fallback_docs, index, fault, written)
           IN  /\ index' = r.index
               /\ last' = [op |-> "seed", returned |-> Append(last.returned, r.exc = ""),
                           counts |-> Append(last.counts, Count(r.index))]
               /\ fallback_docs' = IF r.bulk_calls = 1
                                   THEN CatalogAfterActions(fallback_docs)
                                   ELSE fallback_docs
    /\ UNCHANGED <<mode, client, connect_attempts, startup, startups>>

NextSeed == DoSeedIfEmpty

SpecSeed == InitSeed /\ [][NextSeed]_vars

\* ------------------------------------------------------------------- claims
IsSearch == last.op = "search"
IsInitialize == last.op = "initialize"

ReturnsWarning == last.outcome = "return" /\ last.value.some /\ last.value.v # <<>>
ReturnsNone == last.outcome = "return" /\ ~last.value.some

\* C1: a search in remote mode whose remote call raised returns the fallback
\* search results of its intent with a warning that has the word "fallback",
\* and the mode is still remote.
C1_RemoteFailureFallsBack ==
    (IsSearch /\ last.remote = "raised") =>
        /\ last.outcome = "return"
        /\ last.fallback_called
        /\ last.results = FallbackSearch(fallback_docs, last.intent).results
        /\ last.warning.some
        /\ "fallback" \in Range(last.warning.v)
        /\ mode = "elasticsearch"

C1_Witness ==
    /\ IsSearch
    /\ last.remote = "raised"
    /\ last.response.exc = "ConnectionTimeout"
    /\ last.results # <<>>

\* C2: search never raises to its caller, over any loaded seed catalog: every
\* search call returns a result list and an optional warning.
C2_SearchNeverRaises == IsSearch => last.outcome = "return"

\* C3 (as claimed): the mode starts uninitialized and, within a process, changes
\* once, out of uninitialized, in the startup call of initialize.
C3_StartsUninitialized ==
    /\ mode = "uninitialized"
    /\ [][(startups' = startups /\ mode' # mode)
            => (mode = "uninitialized" /\ last'.op = "initialize")]_vars

\* C3 (amended): the mode is fallback or remote and starts fallback; a call of
\* search or mode never changes it; initialize sets it to fallback when the
\* connection manager reports unavailable, to remote when provisioning
\* completes, and leaves it alone when provisioning raises.
C3_ModeSetOnlyByInitialize ==
    /\ mode = "fallback"
    /\ [][/\ mode' \in {"fallback", "elasticsearch"}
          /\ (last'.op \in {"search", "mode"} => mode' = mode)
          /\ (last'.op = "initialize" =>
                mode' = IF ~last'.connected THEN "fallback"
                        ELSE IF last'.outcome = "return" THEN "elasticsearch"
                        ELSE mode)]_vars

C3_Witness ==
    /\ IsSearch
    /\ startup = "ready"
    /\ mode = "elasticsearch"
    /\ last.remote = "raised"

\* C4 (as claimed): initialize returns a warning exactly when it did not
\* establish remote mode and None exactly when it leaves the service remote;
\* on an unavailable engine it warns, sets fallback and provisions nothing.
C4_WarningIffNotRemote ==
    IsInitialize =>
        /\ ReturnsWarning <=> mode # "elasticsearch"
        /\ ReturnsNone <=> mode = "elasticsearch"
        /\ ~last.connected =>
            (ReturnsWarning /\ mode = "fallback"
             /\ last.ensure_calls = 0 /\ last.seed_calls = 0)

\* C4 (amended): initialize returns a warning exactly when the connection
\* manager reports unavailable, and None exactly when it sets the mode to
\* remote; when the connection succeeds and provisioning raises it returns
\* neither and the mode is not remote.  On an unavailable engine it warns, sets
\* fallback and calls neither ensure_index nor seed_if_empty.
C4_WarningIffUnavailable ==
    IsInitialize =>
        /\ ReturnsWarning <=> ~last.connected
        /\ ReturnsNone <=> mode = "elasticsearch"
        /\ last.outcome = "raise" <=> (last.connected /\ mode # "elasticsearch")
        /\ ~last.connected =>
            (ReturnsWarning /\ mode = "fallback"
             /\ last.ensure_calls = 0 /\ last.seed_calls = 0
             /\ last.exists_calls + last.create_calls + last.count_calls
                + last.bulk_calls = 0)

C4_Witness ==
    /\ IsInitialize
    /\ last.outcome = "raise"
    /\ last.connected
    /\ mode = "fallback"

\* C5: the connection manager returns the client at the first attempt whose
\* probe succeeds and makes no attempt after it; when no attempt succeeds it
\* returns None without raising; an attempt that raises and one whose probe
\* answers false are passed over alike, each followed by one sleep.
FirstSuccess(attempts) ==
    CHOOSE i \in DOMAIN attempts :
        attempts[i] = "ping true" /\ \A j \in 1..(i - 1) : attempts[j] # "ping true"

C5_FirstSuccessOrUnavailable ==
    IsInitialize =>
        IF \E i \in DOMAIN last.attempts : last.attempts[i] = "ping true"
        THEN /\ last.connected
             /\ client = "client"
             /\ last.tried = FirstSuccess(last.attempts)
             /\ last.sleeps = last.tried - 1
        ELSE /\ ~last.connected
             /\ last.outcome = "return"
             /\ ReturnsWarning
             /\ last.tried = Len(last.attempts)
             /\ last.sleeps = Len(last.attempts)

C5_Witness ==
    /\ IsInitialize
    /\ Len(last.attempts) = 2
    /\ last.attempts[1] \in {"construct raises", "ping raises"}
    /\ last.attempts[2] = "ping true"
    /\ last.connected

\* C6: when ensure_index or seed_if_empty raises in the startup initialize, the
\* error propagates with no engine call made twice, the mode is not remote for
\* the rest of the process, and no later search calls the remote engine.
C6_ProvisioningFailureIsFatal ==
    /\ (IsInitialize /\ last.connected /\ last.outcome = "raise") =>
            /\ startup = "raised"
            /\ last.exc # ""
            /\ last.ensure_calls <= 1 /\ last.seed_calls <= 1
            /\ last.exists_calls <= 1 /\ last.create_calls <= 1
            /\ last.count_calls <= 1 /\ last.bulk_calls <= 1
    /\ startup = "raised" =>
            /\ mode = "fallback"
            /\ IsSearch => (last.remote = "not called" /\ last.fallback_called)

C6_Witness ==
    /\ startup = "raised"
    /\ client = "client"
    /\ IsSearch
    /\ index.exists
    /\ Count(index) > 0

\* C7: in remote mode a remote answer with zero hits makes search return the
\* empty list with no warning, without running the fallback search.
C7_ZeroHitsIsNotAFailure ==
    (IsSearch /\ last.remote = "answered" /\ last.response.hits = <<>>) =>
        /\ last.outcome = "return"
        /\ last.results = <<>>
        /\ last.warning = None
        /\ ~last.fallback_called

C7_Witness ==
    /\ IsSearch
    /\ mode = "elasticsearch"
    /\ last.remote = "answered"
    /\ last.response.hits = <<>>
    /\ FallbackSearch(fallback_docs, last.intent).results # <<>>

\* C8: in fallback mode every search runs the fallback search only, never calls
\* the remote engine, and returns the one fixed warning, also with no results.
C8_FallbackModeAlwaysWarns ==
    (IsSearch /\ mode = "fallback") =>
        /\ last.remote = "not called"
        /\ last.fallback_called
        /\ last.outcome = "return"
        /\ last.results = FallbackSearch(fallback_docs, last.intent).results
        /\ last.warning = Some(FallbackModeWarning)

C8_Witness ==
    /\ IsSearch
    /\ mode = "fallback"
    /\ startup = "unavailable"
    /\ last.results = <<>>
    /\ last.warning = Some(FallbackModeWarning)

\* C9: after a call of seed_if_empty that returned, a second call in sequence
\* leaves the document count where the first left it.
C9_SeedTwiceSameCount ==
    last.op = "seed" =>
        \A i \in 1..(Len(last.counts) - 1) :
            last.returned[i] => last.counts[i + 1] = last.counts[i]

C9_Witness ==
    /\ last.op = "seed"
    /\ Len(last.counts) >= 2
    /\ last.returned[1] /\ last.returned[2]
    /\ last.counts[1] = 2
    /\ last.counts[2] = 2

\* C10: a startup writes documents to the index only when its count is zero,
\* and then each written document is a seed document with its spec blob under
\* its own id, all of them when the call returns; when the count is nonzero
\* every document of the index is left as it was.
IsStartupStep == startup = "not called" /\ startup' # "not called"

SeededDocs(docs) == [id \in {docs[i].id : i \in 1..Len(docs)} |->
                        WithSpecBlob(docs[CHOOSE i \in 1..Len(docs) : docs[i].id = id])]

C10_SeedsOnlyWhenEmpty ==
    [][IsStartupStep =>
        /\ Count(index) > 0 => index'.docs = index.docs
        /\ index'.docs # index.docs => (Count(index) = 0 /\ last'.bulk_calls = 1)
        /\ \A k \in DOMAIN index'.docs :
                \/ (k \in DOMAIN index.docs /\ index'.docs[k] = index.docs[k])
                \/ \E i \in 1..Len(fallback_docs) :
                        /\ fallback_docs[i].id = k
                        /\ index'.docs[k] = WithSpecBlob(fallback_docs[i])
        /\ (last'.outcome = "return" /\ last'.seed_calls = 1 /\ Count(index) = 0)
                => index'.docs = SeededDocs(fallback_docs)]_vars

C10_Witness ==
    /\ IsInitialize
    /\ startups = 2
    /\ startup = "ready"
    /\ last.bulk_calls = 0
    /\ Len(fallback_docs) = 2
    /\ index.docs = SeededDocs(fallback_docs)

\* ------------------------------------------------- the two engines, alone
\* _fallback_search and _search_elasticsearch applied once each to a loaded
\* catalog and to the index seeded from it.
EngineCatalogs ==
    CatalogsOver(DocPool, MaxDocs + 1) \cup {<<DocLed, DocLedTwin>>, <<DocLedTwin, DocLed>>}

\* _fallback_search never reads sort_preference
FallbackIntents == {i \in Intents : i.sort_preference = "relevance"}

RemoteIntents ==
    {[keywords |-> k, limit |-> MaxLimit, in_stock_only |-> s, min_quantity |-> None,
      max_unit_price |-> None, sort_preference |-> p] :
        k \in {Kw_psu, Kw_usb_led, Kw_the}, s \in BOOLEAN, p \in SortPreferences}

InitEngines ==
    /\ mode = "elasticsearch"
    /\ client = "client"
    /\ fallback_docs \in EngineCatalogs
    /\ connect_attempts = MaxAttempts
    /\ index = [exists |-> TRUE, docs |-> SeededDocs(fallback_docs),
                 mapping |-> IndexMapping]
    /\ startup = "ready"
    /\ startups = 1
    /\ last = [op |-> "loaded"]

DoFallbackSearch ==
    /\ last.op = "loaded"
    /\ \E intent \in FallbackIntents :
            last' = [op |-> "fallback_search", intent |-> intent]
                    @@ FallbackSearch(fallback_docs, intent)
    /\ UNCHANGED <<mode, client, fallback_docs, connect_attempts, index, startup, startups>>

DoSearchElasticsearch ==
    /\ last.op = "loaded"
    /\ \E intent \in RemoteIntents :
         \E response \in Responses(index, SearchRequest(intent)) :
            last' = [op |-> "search_elasticsearch", intent |-> intent, response |-> response]
                    @@ SearchElasticsearch(intent, response)
    /\ UNCHANGED <<mode, client, fallback_docs, connect_attempts, index, startup, startups>>

NextEngines == DoFallbackSearch \/ DoSearchElasticsearch

SpecEngines == InitEngines /\ [][NextEngines]_vars

IsFallbackSearch == last.op = "fallback_search"
IsSearchElasticsearch == last.op = "search_elasticsearch"

\* results[i].recommendation_score >= results[i + 1].recommendation_score
ScoreOrdered(results) ==
    \A i \in 1..(Len(results) - 1) :
        results[i].recommendation_score >= results[i + 1].recommendation_score

\* the results of the documents that pass the token test and the constraints
Survivors(docs, intent) ==
    {FallbackDoc(docs[i], intent, QueryTokens(intent.keywords, FallbackStopWords)).result :
        i \in {j \in 1..Len(docs) :
                 FallbackDoc(docs[j], intent,
                             QueryTokens(intent.keywords, FallbackStopWords)).kind = "keep"}}

\* C11: the list a fallback search returns is ordered by recommendation_score,
\* highest first, has min(limit, survivors) elements, each the result of a
\* surviving document, none twice, and no survivor left out scores higher than
\* a returned one: it is the first limit elements of the score-sorted survivors.
C11_FallbackTopLimitByScore ==
    IsFallbackSearch =>
        LET all == Survivors(fallback_docs, last.intent)
            n == IF last.intent.limit < Cardinality(all) THEN last.intent.limit
                 ELSE Cardinality(all)
        IN  /\ last.exc = ""
            /\ ScoreOrdered(last.results)
            /\ Len(last.results) = n
            /\ Range(last.results) \subseteq all
            /\ Cardinality(Range(last.results)) = n
            /\ \A out \in all \ Range(last.results) : \A i \in 1..n :
                    out.recommendation_score <= last.results[i].recommendation_score

C11_Witness ==
    /\ IsFallbackSearch
    /\ Len(fallback_docs) = 3
    /\ Cardinality(Survivors(fallback_docs, last.intent)) = 3
    /\ last.intent.limit = 2
    /\ Len(last.results) = 2
    /\ last.results[1].id = fallback_docs[3].id
    /\ last.results[2].id = fallback_docs[1].id

\* C12: whatever the sort preference, a remote search that was answered with
\* hits returns one result per hit, ordered by recommendation_score, highest
\* first; the same hits give the same list under every sort preference.
C12_RemoteOrderedByScore ==
    (IsSearchElasticsearch /\ last.response.exc = "" /\ last.response.hits # <<>>) =>
        /\ last.exc = ""
        /\ ScoreOrdered(last.results)
        /\ Len(last.results) = Len(last.response.hits)
        /\ {last.results[i].id : i \in 1..Len(last.results)}
                = {last.response.hits[i]["_source"].id : i \in 1..Len(last.response.hits)}
        /\ \A p \in SortPreferences :
                SearchElasticsearch([last.intent EXCEPT !.sort_preference = p],
                                    last.response).results = last.results

C12_Witness ==
    /\ IsSearchElasticsearch
    /\ last.intent.sort_preference = "price_low"
    /\ Len(last.response.hits) = 2
    /\ last.response.hits[1]["_source"].unit_price < last.response.hits[2]["_source"].unit_price
    /\ Len(last.results) = 2
    /\ last.results[1].id = last.response.hits[2]["_source"].id
    /\ last.results[1].recommendation_score > last.results[2].recommendation_score

\* the document of the catalog a result was built from
DocOf(docs, result) == docs[CHOOSE i \in 1..Len(docs) : docs[i].id = result.id]

\* the document's haystack holds at least one of the tokens
MatchesToken(doc, query_tokens) ==
    \E t \in query_tokens : Contains(CoverageHaystack(doc), t)

\* C13: every document a fallback search returns passes the range filters the
\* remote request of the same intent carries: quantity_available > 0 when
\* in_stock_only, >= min_quantity and unit_price <= max_unit_price when set;
\* and while the list is shorter than the limit, every document that matches
\* the query and passes those filters is in it.
C13_FallbackAppliesRemoteFilters ==
    IsFallbackSearch =>
        LET request == SearchRequest(last.intent)
            query_tokens == QueryTokens(last.intent.keywords, FallbackStopWords)
        IN  /\ \A i \in 1..Len(last.results) :
                LET r == last.results[i]
                IN  /\ Matches(r, request)
                    /\ last.intent.in_stock_only => r.quantity_available > 0
                    /\ last.intent.min_quantity.some
                            => r.quantity_available >= last.intent.min_quantity.v
                    /\ last.intent.max_unit_price.some
                            => r.unit_price <= last.intent.max_unit_price.v
            /\ Len(last.results) < last.intent.limit =>
                    \A i \in 1..Len(fallback_docs) :
                        ((query_tokens = {} \/ MatchesToken(fallback_docs[i], query_tokens))
                            /\ Matches(fallback_docs[i], request))
                        => \E j \in 1..Len(last.results) :
                                last.results[j].id = fallback_docs[i].id

C13_Witness ==
    /\ IsFallbackSearch
    /\ last.intent.in_stock_only
    /\ last.intent.keywords = Kw_usb_led
    /\ \E i \in 1..Len(fallback_docs) : fallback_docs[i] = DocLed
    /\ \E i \in 1..Len(fallback_docs) : fallback_docs[i] = DocUsb
    /\ \E j \in 1..Len(last.results) : last.results[j].id = DocUsb.id
    /\ \A j \in 1..Len(last.results) : last.results[j].id # DocLed.id

\* C14: when the query has at least one significant token, a fallback search
\* returns no document whose haystack holds none of the tokens, and a query
\* whose tokens match no document of the catalog returns the empty list
\* without raising.
C14_FallbackNeedsATokenMatch ==
    LET query_tokens == QueryTokens(last.intent.keywords, FallbackStopWords)
    IN  (IsFallbackSearch /\ query_tokens # {}) =>
            /\ \A i \in 1..Len(last.results) :
                    MatchesToken(DocOf(fallback_docs, last.results[i]), query_tokens)
            /\ (\A i \in 1..Len(fallback_docs) :
                    ~MatchesToken(fallback_docs[i], query_tokens))
                    => (last.exc = "" /\ last.results = <<>>)

C14_Witness ==
    /\ IsFallbackSearch
    /\ last.intent.keywords = Kw_xyz
    /\ ~last.intent.in_stock_only
    /\ ~last.intent.min_quantity.some
    /\ ~last.intent.max_unit_price.some
    /\ Len(fallback_docs) = 3
    /\ last.exc = ""
    /\ last.results = <<>>

\* C15: when the query has no significant tokens (the tokens keyword coverage
\* counts, after its stop-word and length filtering), the coverage of every
\* document is 0 and a fallback search drops no document for its tokens: while
\* the list is shorter than the limit, every document that passes the stock,
\* quantity and price constraints is in it.
C15_NoTokensExcludesNothing ==
    (IsFallbackSearch /\ QueryTokens(last.intent.keywords, CoverageStopWords) = {}) =>
        /\ \A i \in 1..Len(fallback_docs) :
                KeywordCoverage(last.intent.keywords, fallback_docs[i]) = Frac(0, 1)
        /\ Len(last.results) < last.intent.limit =>
                \A i \in 1..Len(fallback_docs) :
                    Matches(fallback_docs[i], SearchRequest(last.intent))
                    => \E j \in 1..Len(last.results) :
                            last.results[j].id = fallback_docs[i].id

\* score (units of 0.0001) is 0.78 raw/max(top, 0.0001) + 0.15 matched/tokens
\* + 0.05 min(quantity/10000, 1) + 0.02/(1 + max(price, 0)) rounded to four
\* decimals, ties to even; stated on integers over the common denominator
IsWeightedScore(score, raw, top, quantity, price, matched, tokens) ==
    LET t == IF top > 1 THEN top ELSE 1
        g == GCD(raw, t)
        rn == raw \div g
        rd == t \div g
        c == IF tokens = 0 THEN 1 ELSE tokens
        q == IF quantity < 10000 THEN quantity ELSE 10000
        pd == 100 + (IF price > 0 THEN price ELSE 0)
        d == rd * c * 20 * pd
        n == 7800 * rn * c * 20 * pd + 1500 * matched * rd * 20 * pd
             + q * rd * c * pd + 20000 * rd * c * 20
        diff == IF score * d >= n THEN score * d - n ELSE n - score * d
    IN  /\ 2 * diff <= d
        /\ 2 * diff = d => score % 2 = 0

\* the significant tokens of the query that the document's text holds, and
\* how many significant tokens there are
MatchedTokens(query, doc) ==
    Cardinality({t \in QueryTokens(query, CoverageStopWords) :
                    Contains(CoverageHaystack(doc), t)})

TokenCount(query) == Cardinality(QueryTokens(query, CoverageStopWords))

\* C16: the recommendation_score of every result of either engine lies in
\* [0, 1] and is the weighted sum 0.78 relevance + 0.15 coverage + 0.05 stock
\* + 0.02 price of its inputs: raw = top = 1.0 in the fallback engine; in the
\* remote engine raw is the hit's score (0.0 when it has none) and top the
\* highest score of the answer (1.0 for a hit without one).
C16_ScoreIsBoundedWeightedSum ==
    /\ IsFallbackSearch =>
            \A i \in 1..Len(last.results) :
                LET r == last.results[i]
                IN  /\ r.recommendation_score >= 0
                    /\ r.recommendation_score <= 10000
                    /\ IsWeightedScore(r.recommendation_score, 10000, 10000,
                            r.quantity_available, r.unit_price,
                            MatchedTokens(last.intent.keywords, DocOf(fallback_docs, r)),
                            TokenCount(last.intent.keywords))
    /\ (IsSearchElasticsearch /\ last.exc = "") =>
            \A i \in 1..Len(last.results) :
                LET r == last.results[i]
                    hits == last.response.hits
                    hit == hits[CHOOSE j \in 1..Len(hits) : hits[j]["_source"].id = r.id]
                    top == MaxOf({ScoreOr(hits[j], 10000) : j \in 1..Len(hits)})
                IN  /\ r.recommendation_score >= 0
                    /\ r.recommendation_score <= 10000
                    /\ IsWeightedScore(r.recommendation_score, ScoreOr(hit, 0), top,
                            r.quantity_available, r.unit_price,
                            MatchedTokens(last.intent.keywords, hit["_source"]),
                            TokenCount(last.intent.keywords))

C16_Witness ==
    /\ IsSearchElasticsearch
    /\ Len(last.results) = 2
    /\ \E j \in 1..2 : "_score" \notin DOMAIN last.response.hits[j]
    /\ \E j \in 1..2 : "_score" \in DOMAIN last.response.hits[j]
    /\ last.results[1].recommendation_score > 7800
    /\ last.results[2].recommendation_score > 0
    /\ last.results[2].recommendation_score < 7800

\* ------------------------------------------------------ concurrent searches
\* Request handlers run search on separate threads of one started service.
\* A call reads self._mode and self._client (catalog.py:80), then either runs
\* the fallback engine or sends the request and builds the remote results,
\* falling back when that raises. calls[t] is thread t's call: where it is,
\* and when it has returned, what it returned.
MaxThreads == 2

Threads == 1..MaxThreads

ConcurrentIntents ==
    {[keywords |-> k, limit |-> MaxLimit, in_stock_only |-> FALSE, min_quantity |-> None,
      max_unit_price |-> None, sort_preference |-> "relevance"] : k \in {Kw_psu, Kw_the}}

\* the engine raises, or answers with hits that all carry the one score
ConcurrentResponses(idx, request) ==
    {r \in Responses(idx, request) :
        /\ r.exc # "TransportError"
        /\ \A i \in 1..Len(r.hits) :
                "_score" \in DOMAIN r.hits[i] /\ r.hits[i]["_score"] = MaxOf(EngineScores)}

\* a started service: initialize returned, with or without the engine
InitConcurrent ==
    /\ mode \in {"fallback", "elasticsearch"}
    /\ client = IF mode = "elasticsearch" THEN "client" ELSE "None"
    /\ fallback_docs \in {<<DocPsu, DocLed>>, <<DocLed>>}
    /\ connect_attempts = MaxAttempts
    /\ index = [exists |-> TRUE, docs |-> SeededDocs(fallback_docs),
                 mapping |-> IndexMapping]
    /\ startup = "ready"
    /\ startups = 1
    /\ last = [op |-> "concurrent", calls |-> [t \in Threads |-> [pc |-> "idle"]]]

\* catalog.py:80: the call reads mode and client and takes its path
SearchBegin(t) ==
    /\ last.calls[t].pc = "idle"
    /\ \E intent \in ConcurrentIntents :
            last' = [last EXCEPT !.calls[t] =
                        [pc |-> IF mode # "elasticsearch" \/ client = "None"
                                THEN "fallback" ELSE "remote",
                         intent |-> intent, response |-> NoResponse,
                         after |-> {u \in Threads : last.calls[u].pc = "done"},
                         warning |-> Some(FallbackModeWarning), remote |-> "not called"]]
    /\ UNCHANGED <<mode, client, fallback_docs, connect_attempts, index, startup, startups>>

\* a remote call that, when it fails, switches the service to fallback mode
SearchRemoteCallTripsMode(t) ==
    /\ last.calls[t].pc = "remote"
    /\ \E response \in (IF client = "None" THEN {[exc |-> "AttributeError", hits |-> <<>>]}
                          ELSE ConcurrentResponses(index,
                                                   SearchRequest(last.calls[t].intent))) :
         LET es == SearchElasticsearch(last.calls[t].intent, response)
         IN  /\ last' = [last EXCEPT !.calls[t] =
                    IF es.exc = ""
                    THEN [pc |-> "done", intent |-> @.intent, response |-> response,
                          after |-> @.after, reply |-> RemoteReply(es)]
                    ELSE [@ EXCEPT !.pc = "fallback", !.response = response,
                                   !.warning = Some(QueryFailedWarning(es.exc)),
                                   !.remote = "raised"]]
             /\ mode' = IF es.exc = "" THEN mode ELSE "fallback"
    /\ UNCHANGED <<client, fallback_docs, connect_attempts, index, startup, startups>>

\* a remote call that, when it fails, drops the connection handle
SearchRemoteCallDropsClient(t) ==
    /\ last.calls[t].pc = "remote"
    /\ \E response \in (IF client = "None" THEN {[exc |-> "AttributeError", hits |-> <<>>]}
                          ELSE ConcurrentResponses(index,
                                                   SearchRequest(last.calls[t].intent))) :
         LET es == SearchElasticsearch(last.calls[t].intent, response)
         IN  /\ last' = [last EXCEPT !.calls[t] =
                    IF es.exc = ""
                    THEN [pc |-> "done", intent |-> @.intent, response |-> response,
                          after |-> @.after, reply |-> RemoteReply(es)]
                    ELSE [@ EXCEPT !.pc = "fallback", !.response = response,
                                   !.warning = Some(QueryFailedWarning(es.exc)),
                                   !.remote = "raised"]]
             /\ client' = IF es.exc = "" THEN client ELSE "None"
    /\ UNCHANGED <<mode, fallback_docs, connect_attempts, index, startup, startups>>

\* catalog.py:83-86: self._client.search(...) answers and the results are
\* built and returned, or something raises and the call turns to the fallback
SearchRemoteCall(t) ==
    /\ last.calls[t].pc = "remote"
    /\ \E response \in (IF client = "None" THEN {[exc |-> "AttributeError", hits |-> <<>>]}
                          ELSE ConcurrentResponses(index,
                                                   SearchRequest(last.calls[t].intent))) :
         LET es == SearchElasticsearch(last.calls[t].intent, response)
         IN  last' = [last EXCEPT !.calls[t] =
                    IF es.exc = ""
                    THEN [pc |-> "done", intent |-> @.intent, response |-> response,
                          after |-> @.after, reply |-> RemoteReply(es)]
                    ELSE [@ EXCEPT !.pc = "fallback", !.response = response,
                                   !.warning = Some(QueryFailedWarning(es.exc)),
                                   !.remote = "raised"]]
    /\ UNCHANGED <<mode, client, fallback_docs, connect_attempts, index, startup, startups>>

\* catalog.py:81 and :86: _fallback_search over self._fallback_docs, returned
\* with the warning of the path taken
SearchFallback(t) ==
    /\ last.calls[t].pc = "fallback"
    /\ last' = [last EXCEPT !.calls[t] =
                    [pc |-> "done", intent |-> @.intent, response |-> @.response,
                     after |-> @.after,
                     reply |-> FallbackReply(FallbackSearch(fallback_docs, @.intent),
                                             @.warning, @.remote)]]
    /\ UNCHANGED <<mode, client, fallback_docs, connect_attempts, index, startup, startups>>

NextConcurrent ==
    \E t \in Threads : SearchBegin(t) \/ SearchRemoteCall(t) \/ SearchFallback(t)

SpecConcurrent == InitConcurrent /\ [][NextConcurrent]_vars

Returned(t) == last.calls[t].pc = "done"

\* C17: however concurrent searches interleave, no step of a search changes
\* mode, client or the seed catalog, and every call that has returned returned
\* what search gives, run alone, for its intent and the response it received.
C17_ConcurrentSearchesAreIndependent ==
    /\ [](\A t \in Threads :
            Returned(t) =>
                last.calls[t].reply = Search(mode, client, fallback_docs,
                                             last.calls[t].intent, last.calls[t].response))
    /\ [][mode' = mode /\ client' = client /\ fallback_docs' = fallback_docs]_vars

C17_Witness ==
    /\ Returned(1)
    /\ Returned(2)
    /\ last.calls[1].after = {}
    /\ last.calls[2].after = {}
    /\ last.calls[1].reply.remote = "raised"
    /\ last.calls[1].reply.results # <<>>
    /\ last.calls[2].reply.remote = "answered"
    /\ last.calls[2].reply.results # <<>>

\* thread t's call began after thread u's call had returned from a remote
\* query that raised
BeganAfterFailureOf(t, u) ==
    /\ Returned(u)
    /\ last.calls[u].reply.remote = "raised"
    /\ last.calls[t].pc # "idle"
    /\ u \in last.calls[t].after

\* C19: a search that begins after another search fell back because its
\* remote query raised still queries the remote engine first, and when the
\* engine answers it returns the remote results, with no warning and without
\* running the fallback engine.
C19_FailureDoesNotAffectNextSearch ==
    \A t \in Threads : \A u \in Threads :
        BeganAfterFailureOf(t, u) =>
            /\ last.calls[t].pc = "fallback" => last.calls[t].remote = "raised"
            /\ Returned(t) => last.calls[t].reply.remote # "not called"
            /\ (Returned(t) /\ last.calls[t].response.exc = "") =>
                    /\ last.calls[t].reply.remote = "answered"
                    /\ last.calls[t].reply.results
                            = SearchElasticsearch(last.calls[t].intent,
                                                  last.calls[t].response).results
                    /\ last.calls[t].reply.warning = None
                    /\ ~last.calls[t].reply.fallback_called

C19_Witness ==
    /\ BeganAfterFailureOf(2, 1)
    /\ Returned(2)
    /\ last.calls[2].reply.remote = "answered"
    /\ last.calls[2].reply.results # <<>>
    /\ last.calls[2].reply.warning = None

\* C18: a seed catalog holding a document without a key ProductResult needs
\* is refused when it is loaded or seeded: no search call ever runs over such
\* a catalog, and a service that finished its startup holds none.
C18_MalformedSeedNeverReachesSearch ==
    (IsSearch \/ startup = "ready") =>
        \A i \in 1..Len(fallback_docs) : ResultKeys \subseteq DOMAIN fallback_docs[i]

\* C20: a startup that reaches _ensure_index asks once whether the index
\* exists; it issues a create call only when the index does not exist, and the
\* index then exists with the fixed mapping; when the index exists it issues
\* no create call and the index keeps its mapping and, unless seeding then
\* loads it, its documents. Ensuring an ensured index changes nothing.
C20_EnsureIndexIsIdempotent ==
    /\ [](LET once == EnsureIndex(index, "none")
               twice == EnsureIndex(once.index, "none")
           IN  /\ twice.index = once.index
               /\ twice.create_calls = 0
               /\ index.exists => (once.index = index /\ once.create_calls = 0))
    /\ [][(IsStartupStep /\ last'.ensure_calls = 1) =>
            /\ last'.exists_calls = 1
            /\ last'.create_calls = 1 => ~index.exists
            /\ (~index.exists /\ last'.seed_calls = 1) =>
                    /\ last'.create_calls = 1
                    /\ index'.exists
                    /\ index'.mapping = IndexMapping
            /\ index.exists =>
                    /\ last'.create_calls = 0
                    /\ index'.exists
                    /\ index'.mapping = index.mapping
                    /\ last'.bulk_calls = 0 => index' = index]_vars

C20_Witness ==
    /\ IsInitialize
    /\ startups = 2
    /\ startup = "ready"
    /\ last.ensure_calls = 1
    /\ last.exists_calls = 1
    /\ last.create_calls = 0
    /\ index.mapping = DynamicMapping
    /\ Count(index) = 1

C22_TokenizersAgree ==
    IsFallbackSearch =>
        QueryTokens(last.intent.keywords, FallbackStopWords)
            = QueryTokens(last.intent.keywords, CoverageStopWords)

\* C23: when the engine answers with hits of which some carry a score, the
\* normalizer is the highest of those scores: every scored hit's result has
\* the recommendation_score of its own score against that maximum, so the hit
\* holding the maximum has relevance 1.0.
C23_TopIsMaximumEngineScore ==
    (IsSearchElasticsearch /\ last.exc = "" /\ last.response.hits # <<>>) =>
        LET hits == last.response.hits
            scored == {j \in 1..Len(hits) : "_score" \in DOMAIN hits[j]}
        IN  scored # {} =>
                LET top == MaxOf({hits[j]["_score"] : j \in scored})
                IN  \A j \in scored :
                        LET doc == hits[j]["_source"]
                            r == last.results[CHOOSE i \in 1..Len(last.results) :
                                                last.results[i].id = doc.id]
                        IN  /\ r.recommendation_score
                                    = RecommendationScore(hits[j]["_score"], top, doc,
                                        KeywordCoverage(last.intent.keywords, doc))
                            /\ hits[j]["_score"] = top =>
                                    IsWeightedScore(r.recommendation_score, 1, 1,
                                        r.quantity_available, r.unit_price,
                                        MatchedTokens(last.intent.keywords, doc),
                                        TokenCount(last.intent.keywords))

\* --------------------------------------------- the connect loop, by attempt
\* _connect_with_retry one pass of its for loop at a time. last.outcomes are
\* the attempts made so far, last.sleeps the durations of the time.sleep calls.
\* Each probe ends: the client is built with request_timeout=15.
ConnectSleepSeconds == 1

InitConnect ==
    /\ mode = "fallback"
    /\ client = "None"
    /\ fallback_docs = <<>>
    /\ connect_attempts \in -1..(MaxAttempts + 2)
    /\ index = [exists |-> FALSE, docs |-> EmptyDocs, mapping |-> NoMapping]
    /\ startup = "not called"
    /\ startups = 1
    /\ last = [op |-> "connect", state |-> "running", outcomes |-> <<>>, pings |-> 0,
               sleeps |-> <<>>, client |-> "None"]

\* a pass that sleeps twice as long after every failed attempt
ConnectAttemptBackoff ==
    /\ last.op = "connect"
    /\ last.state = "running"
    /\ Len(last.outcomes) < connect_attempts
    /\ \E outcome \in AttemptOutcomes :
            last' = IF outcome = "ping true"
                    THEN [last EXCEPT !.state = "returned", !.client = "client",
                                      !.outcomes = Append(@, outcome), !.pings = @ + 1]
                    ELSE [last EXCEPT !.outcomes = Append(@, outcome),
                                      !.pings = IF outcome = "construct raises" THEN @
                                                ELSE @ + 1,
                                      !.sleeps = Append(@, ConnectSleepSeconds
                                                           * (2 ^ Len(last.sleeps)))]
    /\ UNCHANGED <<mode, client, fallback_docs, connect_attempts, index, startup, startups>>

\* one pass of the loop: build the client and ping; return it on a true ping,
\* otherwise sleep sleep_seconds and go round
ConnectAttempt ==
    /\ last.op = "connect"
    /\ last.state = "running"
    /\ Len(last.outcomes) < connect_attempts
    /\ \E outcome \in AttemptOutcomes :
            last' = IF outcome = "ping true"
                    THEN [last EXCEPT !.state = "returned", !.client = "client",
                                      !.outcomes = Append(@, outcome), !.pings = @ + 1]
                    ELSE [last EXCEPT !.outcomes = Append(@, outcome),
                                      !.pings = IF outcome = "construct raises" THEN @
                                                ELSE @ + 1,
                                      !.sleeps = Append(@, ConnectSleepSeconds)]
    /\ UNCHANGED <<mode, client, fallback_docs, connect_attempts, index, startup, startups>>

\* range(max_attempts) is used up (at once when max_attempts <= 0): return None
ConnectGiveUp ==
    /\ last.op = "connect"
    /\ last.state = "running"
    /\ Len(last.outcomes) >= connect_attempts
    /\ last' = [last EXCEPT !.state = "returned"]
    /\ UNCHANGED <<mode, client, fallback_docs, connect_attempts, index, startup, startups>>

NextConnect == ConnectAttempt \/ ConnectGiveUp

\* the thread running the loop keeps running
SpecConnect == InitConnect /\ [][NextConnect]_vars /\ WF_vars(NextConnect)

\* C24: the connect loop ends; it makes at most max_attempts attempts, each
\* with at most one probe, sleeps the one fixed duration after each failed
\* attempt and at no other time, and with max_attempts <= 0 it returns no
\* client without an attempt, a probe or a sleep. What it returns is what
\* _connect_with_retry gives for the same attempts.
C24_ConnectLoopIsBounded ==
    /\ <>(last.state = "returned")
    /\ [](LET cap == IF connect_attempts > 0 THEN connect_attempts ELSE 0
               tried == Len(last.outcomes)
           IN  /\ tried <= cap
               /\ last.pings <= tried
               /\ Len(last.sleeps) <= cap
               /\ Len(last.sleeps)
                    = Cardinality({i \in 1..tried : last.outcomes[i] # "ping true"})
               /\ \A i \in 1..Len(last.sleeps) : last.sleeps[i] = ConnectSleepSeconds
               /\ connect_attempts <= 0 =>
                    (tried = 0 /\ last.pings = 0 /\ last.sleeps = <<>>
                     /\ last.client = "None")
               /\ last.state = "returned" =>
                    LET r == ConnectWithRetry(connect_attempts, last.outcomes)
                    IN  /\ r.client = last.client
                        /\ r.tried = tried
                        /\ r.pings = last.pings
                        /\ r.sleeps = Len(last.sleeps))

C24_Witness ==
    /\ last.op = "connect"
    /\ last.state = "returned"
    /\ last.client = "None"
    /\ connect_attempts = MaxAttempts + 2
    /\ Len(last.outcomes) = connect_attempts
    /\ Len(last.sleeps) = connect_attempts
    /\ last.pings < connect_attempts

\* the whitespace-separated, lowercased, punctuation-stripped tokens of the
\* query that are longer than two characters and are no stop word
StrippedSignificantTokens(query) ==
    {t \in {Strip(w) : w \in Range(Split(Lower(query)))} :
        Len(t) > 2 /\ t \notin CoverageStopWords}

\* C25: the keyword coverage of a document is in [0, 1] and is the share of
\* the query's significant tokens found in the document's lowercased text
\* (0 when there are none), the significant tokens being the stripped tokens
\* longer than two characters that are no stop word.
C25_CoverageIsShareOfSignificantTokens ==
    IsFallbackSearch =>
        \A i \in 1..Len(fallback_docs) :
            LET doc == fallback_docs[i]
                tokens == StrippedSignificantTokens(last.intent.keywords)
                found == {t \in tokens : Contains(CoverageHaystack(doc), t)}
                coverage == KeywordCoverage(last.intent.keywords, doc)
            IN  /\ coverage.n >= 0
                /\ coverage.n <= coverage.d
                /\ coverage = IF tokens = {} THEN Frac(0, 1)
                              ELSE Frac(Cardinality(found), Cardinality(tokens))

\* C26: a remote search asks the engine for at most intent.limit hits and
\* returns exactly one result per hit of the answer, none dropped and none
\* twice; the engine honouring the cap, that is at most limit results.
C26_LimitIsTheRequestSize ==
    (IsSearch /\ last.remote = "answered") =>
        /\ SearchRequest(last.intent).size = last.intent.limit
        /\ Len(last.results) = Len(last.response.hits)
        /\ \A j \in 1..Len(last.response.hits) :
                Cardinality({i \in 1..Len(last.results) :
                                last.results[i].id = last.response.hits[j]["_source"].id}) = 1
        /\ Len(last.results) <= last.intent.limit

C26_Witness ==
    /\ IsSearch
    /\ last.remote = "answered"
    /\ last.intent.limit = 1
    /\ last.intent.keywords = Kw_the
    /\ ~last.intent.in_stock_only
    /\ Count(index) = 2
    /\ Len(last.response.hits) = 1
    /\ Len(last.results) = 1

\* C27: no step of the service changes the seed catalog, neither its
\* documents nor their order; a seeding run leaves the spec blob on the
\* indexed copies only.
C27_SeedCatalogIsNeverMutated ==
    /\ [](\A i \in 1..Len(fallback_docs) : "spec_blob" \notin DOMAIN fallback_docs[i])
    /\ [][fallback_docs' = fallback_docs]_vars

C27_Witness ==
    /\ IsInitialize
    /\ last.bulk_calls = 1
    /\ startup = "ready"
    /\ Len(fallback_docs) = 2
    /\ \A i \in 1..2 :
            /\ "spec_blob" \notin DOMAIN fallback_docs[i]
            /\ fallback_docs[i].id \in DOMAIN index.docs
            /\ index.docs[fallback_docs[i].id] = WithSpecBlob(fallback_docs[i])

\* C28: whenever mode is elasticsearch a client is held and the initialize
\* call of this process returned after _ensure_index and _seed_if_empty both
\* ran without raising; mode becomes elasticsearch only in that step, which
\* leaves the index existing and, if it was empty, holding the whole seed
\* catalog; and a search sends a request to the engine only when mode is
\* elasticsearch.
C28_RemoteModeMeansProvisioned ==
    /\ [](mode = "elasticsearch" =>
            (client # "None" /\ startup = "ready" /\ index.exists))
    /\ []((IsSearch /\ last.remote # "not called") =>
            (mode = "elasticsearch" /\ client # "None" /\ startup = "ready"))
    /\ [][(mode # "elasticsearch" /\ mode' = "elasticsearch") =>
            /\ IsStartupStep
            /\ last'.op = "initialize"
            /\ last'.connected
            /\ last'.ensure_calls = 1
            /\ last'.seed_calls = 1
            /\ last'.outcome = "return"
            /\ last'.exc = ""
            /\ index'.exists
            /\ Count(index) = 0 => index'.docs = SeededDocs(fallback_docs)]_vars

C28_Witness ==
    /\ IsSearch
    /\ last.remote = "answered"
    /\ mode = "elasticsearch"
    /\ startups = 2
    /\ Count(index) = 1
    /\ "x-1" \in DOMAIN index.docs

\* C29: while initialize has not run in this process, or has raised while
\* provisioning the index, mode is fallback and is reported so, and a search
\* returns the fallback engine's results with the fallback-mode warning
\* without sending anything to the engine.
C29_UnprovisionedServesFallback ==
    (startup \in {"not called", "raised"}) =>
        /\ mode = "fallback"
        /\ last.op = "mode" => last.value = "fallback"
        /\ IsSearch =>
                /\ last.outcome = "return"
                /\ last.remote = "not called"
                /\ last.fallback_called
                /\ last.results = FallbackSearch(fallback_docs, last.intent).results
                /\ last.warning = Some(FallbackModeWarning)

C29_Witness ==
    /\ IsSearch
    /\ startup = "raised"
    /\ client = "client"
    /\ last.remote = "not called"
    /\ last.results # <<>>
    /\ last.warning = Some(FallbackModeWarning)

\* where the document of a result stands in a list of documents
PositionOf(docs, id) == CHOOSE i \in 1..Len(docs) : docs[i].id = id

\* C30: results of equal recommendation_score keep the order of their
\* documents in the input: the order of the seed catalog in a fallback search,
\* the order of the hits in a remote search.
C30_TiesKeepInputOrder ==
    /\ IsFallbackSearch =>
            \A i \in 1..Len(last.results) : \A j \in (i + 1)..Len(last.results) :
                last.results[i].recommendation_score = last.results[j].recommendation_score
                => PositionOf(fallback_docs, last.results[i].id)
                        < PositionOf(fallback_docs, last.results[j].id)
    /\ (IsSearchElasticsearch /\ last.exc = "") =>
            LET docs == [k \in 1..Len(last.response.hits) |->
                            last.response.hits[k]["_source"]]
            IN  \A i \in 1..Len(last.results) : \A j \in (i + 1)..Len(last.results) :
                    last.results[i].recommendation_score
                        = last.results[j].recommendation_score
                    => PositionOf(docs, last.results[i].id)
                            < PositionOf(docs, last.results[j].id)

C30_Witness ==
    /\ IsFallbackSearch
    /\ fallback_docs = <<DocLedTwin, DocLed>>
    /\ Len(last.results) = 2
    /\ last.results[1].recommendation_score = last.results[2].recommendation_score
    /\ last.results[1].id = DocLedTwin.id
    /\ last.results[2].id = DocLed.id

\* ---------------------------------------------------------------------------
\* scripts/seed_elasticsearch.py: call_with_retries, one pass of its loop at
\* a time. The call in progress is kept in last.
\* ---------------------------------------------------------------------------

\* largest attempts argument explored (every caller passes the default, 20)
MaxRetryAttempts == 4

\* what one func() does: return a value, raise an Exception (caught by the
\* loop), or raise a BaseException that `except Exception` does not catch
RetryReturnValues == {"acknowledged", "count"}

RetryExceptions == {"ConnectionError", "TransportError"}

RetryOutcomes ==
    [kind : {"return"}, v : RetryReturnValues]
        \cup [kind : {"Exception"}, v : RetryExceptions]
        \cup [kind : {"BaseException"}, v : {"KeyboardInterrupt"}]

InitRetry ==
    /\ mode = "fallback"
    /\ client = "None"
    /\ fallback_docs = <<>>
    /\ connect_attempts = 0
    /\ index = [exists |-> FALSE, docs |-> EmptyDocs, mapping |-> NoMapping]
    /\ startup = "not called"
    /\ startups = 1
    /\ \E attempts \in 1..MaxRetryAttempts :
            last = [op |-> "call_with_retries", state |-> "running",
                    attempts |-> attempts, calls |-> <<>>, last_exc |-> "None",
                    sleeps |-> 0, value |-> "None", raised |-> "None"]

\* a pass that remembers only the first exception
RetryInvokeKeepsFirstError ==
    /\ last.op = "call_with_retries"
    /\ last.state = "running"
    /\ Len(last.calls) < last.attempts
    /\ \E outcome \in RetryOutcomes :
            last' = CASE outcome.kind = "return" ->
                            [last EXCEPT !.state = "returned", !.value = outcome.v,
                                         !.calls = Append(@, outcome)]
                      [] outcome.kind = "Exception" ->
                            [last EXCEPT !.last_exc = IF @ = "None" THEN outcome.v ELSE @,
                                         !.sleeps = @ + 1,
                                         !.calls = Append(@, outcome)]
                      [] OTHER ->
                            [last EXCEPT !.state = "raised", !.raised = outcome.v,
                                         !.calls = Append(@, outcome)]
    /\ UNCHANGED <<mode, client, fallback_docs, connect_attempts, index, startup, startups>>

\* one pass of the loop: `return func()`; an Exception is kept in last_exc,
\* reported and slept on; anything else func raises leaves the function
RetryInvoke ==
    /\ last.op = "call_with_retries"
    /\ last.state = "running"
    /\ Len(last.calls) < last.attempts
    /\ \E outcome \in RetryOutcomes :
            last' = CASE outcome.kind = "return" ->
                            [last EXCEPT !.state = "returned", !.value = outcome.v,
                                         !.calls = Append(@, outcome)]
                      [] outcome.kind = "Exception" ->
                            [last EXCEPT !.last_exc = outcome.v,
                                         !.sleeps = @ + 1,
                                         !.calls = Append(@, outcome)]
                      [] OTHER ->
                            [last EXCEPT !.state = "raised", !.raised = outcome.v,
                                         !.calls = Append(@, outcome)]
    /\ UNCHANGED <<mode, client, fallback_docs, connect_attempts, index, startup, startups>>

\* the range is used up: raise last_exc, or RuntimeError when there is none
RetryExhausted ==
    /\ last.op = "call_with_retries"
    /\ last.state = "running"
    /\ Len(last.calls) >= last.attempts
    /\ last' = [last EXCEPT !.state = "raised",
                            !.raised = IF last.last_exc # "None" THEN last.last_exc
                                       ELSE "RuntimeError"]
    /\ UNCHANGED <<mode, client, fallback_docs, connect_attempts, index, startup, startups>>

NextRetry == RetryInvoke \/ RetryExhausted

SpecRetry == InitRetry /\ [][NextRetry]_vars

\* C32: call_with_retries invokes func at most attempts times and never again
\* after an invocation that did not raise an Exception; what it returns is the
\* value of the first invocation that returned; when it raises an Exception,
\* all attempts invocations have failed and the exception is the one of the
\* last invocation. It sleeps once after every failed invocation.
C32_RetriesAreBoundedAndLastErrorWins ==
    last.op = "call_with_retries" =>
        LET n == Len(last.calls)
        IN  /\ n <= last.attempts
            /\ \A i \in 1..(n - 1) : last.calls[i].kind = "Exception"
            /\ last.sleeps = Cardinality({i \in 1..n : last.calls[i].kind = "Exception"})
            /\ last.state = "running" =>
                    \A i \in 1..n : last.calls[i].kind = "Exception"
            /\ last.state = "returned" =>
                    /\ n >= 1
                    /\ last.calls[n].kind = "return"
                    /\ last.value = last.calls[n].v
            /\ (last.state = "raised" /\ last.raised \in RetryExceptions) =>
                    /\ n = last.attempts
                    /\ \A i \in 1..n : last.calls[i].kind = "Exception"
                    /\ last.raised = last.calls[n].v
            /\ (last.state = "raised" /\ last.raised \notin RetryExceptions) =>
                    /\ n >= 1
                    /\ last.calls[n].kind = "BaseException"
                    /\ last.raised = last.calls[n].v

\* two different exceptions in a row use up the attempts: the second is raised
C32_Witness ==
    /\ last.op = "call_with_retries"
    /\ last.state = "raised"
    /\ last.attempts = 2
    /\ Len(last.calls) = 2
    /\ last.calls[1] = [kind |-> "Exception", v |-> "ConnectionError"]
    /\ last.calls[2] = [kind |-> "Exception", v |-> "TransportError"]
    /\ last.raised = "TransportError"

\* ---------------------------------------------------------------------------
\* app/main.py: the chat endpoint
\* ---------------------------------------------------------------------------

\* app.state.startup_warning, as the lifespan hook stored it
StartupWarning == IF startup = "unavailable" THEN Some(UnavailableWarning) ELSE None

\* a chat request, served once the lifespan hook has returned
DoChat ==
    /\ startup \in {"ready", "unavailable"}
    /\ \E intent \in ChatIntents :
         LET request == SearchRequest(MockQueryIntent(intent.keywords, intent.limit))
         IN \E response \in (IF mode # "elasticsearch" \/ client = "None"
                             THEN {NoResponse}
                             ELSE ConcurrentResponses(index, request)) :
                last' = [op |-> "chat", intent |-> intent, response |-> response,
                         startup_warning |-> StartupWarning]
                        @@ Chat(mode, client, fallback_docs, StartupWarning, intent,
                                response)
    /\ UNCHANGED <<mode, client, fallback_docs, connect_attempts, index, startup, startups>>

NextChat == DoInitialize \/ DoChat

SpecChat == Init /\ [][NextChat]_vars

IsChat == last.op = "chat" /\ last.outcome = "return"

\* a is b with some elements left out
RECURSIVE IsSubList(_, _)
IsSubList(a, b) ==
    IF a = <<>> THEN TRUE
    ELSE IF b = <<>> THEN FALSE
    ELSE IF Head(a) = Head(b) THEN IsSubList(Tail(a), Tail(b))
    ELSE IsSubList(a, Tail(b))

\* a product meets every constraint the intent carries
MeetsConstraints(p, intent) ==
    /\ intent.in_stock_only => p.quantity_available > 0
    /\ intent.min_quantity.some => p.quantity_available >= intent.min_quantity.v
    /\ intent.max_unit_price.some => p.unit_price <= intent.max_unit_price.v

\* C31: chat searches the catalog with the intent's keywords and limit and no
\* constraint, under sort preference relevance; the catalog gives at most
\* limit results; the products of the response are the results that meet all
\* constraints of the intent, in the catalog's order; the warning is the
\* startup warning followed by the query warning, or the one present, or none.
C31_ChatFiltersAfterTheCatalog ==
    IsChat =>
        /\ last.query = [keywords |-> last.intent.keywords, limit |-> last.intent.limit,
                         in_stock_only |-> FALSE, min_quantity |-> None,
                         max_unit_price |-> None, sort_preference |-> "relevance"]
        /\ last.catalog = Search(mode, client, fallback_docs, last.query, last.response).results
        /\ Len(last.catalog) <= last.intent.limit
        /\ IsSubList(last.products, last.catalog)
        /\ \A i \in 1..Len(last.products) : MeetsConstraints(last.products[i], last.intent)
        /\ Len(last.products)
                = Cardinality({i \in 1..Len(last.catalog) :
                                    MeetsConstraints(last.catalog[i], last.intent)})
        /\ last.warning =
                IF last.startup_warning.some /\ last.query_warning.some
                THEN Some(last.startup_warning.v \o last.query_warning.v)
                ELSE IF last.startup_warning.some THEN last.startup_warning
                ELSE last.query_warning

\* remote mode, both documents found, the constraints keep the second only
C31_Witness ==
    /\ IsChat
    /\ mode = "elasticsearch"
    /\ last.intent.in_stock_only
    /\ Len(last.catalog) = 2
    /\ Len(last.products) = 1
    /\ last.products[1] = last.catalog[2]
    /\ ~last.warning.some

====
